---- MODULE Spec2Model ----
(***************************************************************************)
(* Laplace approximations (laplace/baselaplace.py): the state of one       *)
(* approximation object wrapped around one torch model, and its            *)
(* operations fit, __call__ (prediction), state_dict and load_state_dict.  *)
(*                                                                         *)
(* Tensors are abstracted to small integer values: a parameter vector is   *)
(* a sequence of scalars, a curvature contribution is a number, a          *)
(* Kronecker factor is a rational number <<num, den>>.  What is kept       *)
(* exactly is the order of the reads and writes of every handler.          *)
(***************************************************************************)
EXTENDS Integers, Sequences, FiniteSets, TLC

VARIABLES
    model,  \* the wrapped torch.nn.Module: parameters, mode, output_size
    la,     \* the fields of the approximation object
    sd,     \* the mapping returned by the last state_dict() call, or None:
            \* its content, the exporter's fields at the export, and which of
            \* its tensors are the very tensors the approximation holds
    last,   \* the last call made: operation, arguments, exception, events
    cfg     \* the constructor arguments the caller's script constructs with

vars == <<model, la, sd, last, cfg>>

----------------------------------------------------------------------------
(* Bounds of the exploration. *)

\* largest n_samples passed to a prediction call
MaxSamples == 2
\* fits are explored while n_data stays at or below this
MaxData == 2
\* the largest grid_size of a grid search
MaxGrid == 2

----------------------------------------------------------------------------
(* Optional values: None is the empty sequence, a present value x is <<x>>. *)

None == << >>
Some(x) == <<x>>
IsNone(o) == o = << >>

Max(a, b) == IF a >= b THEN a ELSE b

RECURSIVE SumSeq(_)
SumSeq(s) == IF s = << >> THEN 0 ELSE Head(s) + SumSeq(Tail(s))

RECURSIVE Gcd(_, _)
Gcd(a, b) == IF b = 0 THEN a ELSE Gcd(b, a % b)

(* Rationals <<num, den>> in lowest terms, den > 0: the values of the      *)
(* Kronecker factors, which fit rescales by n_old / (n_old + n_new).       *)
Rat(n, d) == LET g == Gcd(n, d) IN IF n = 0 THEN <<0, 1>> ELSE <<n \div g, d \div g>>
RatAdd(p, q) == Rat(p[1] * q[2] + q[1] * p[2], p[2] * q[2])
RatMul(p, q) == Rat(p[1] * q[1], p[2] * q[2])

----------------------------------------------------------------------------
(* The wrapped model.  It has two parameter tensors, in model order: a     *)
(* bias-like vector of one element and a weight matrix of two elements.    *)

LayerNumel == <<1, 2>>
LayerNdim == <<1, 2>>
Layers == DOMAIN LayerNumel

\* the values a parameter element takes (abstract scalars, arithmetic mod 3)
Vals == {0, 1, 2}
Shift(v, d) == (v + d) % Cardinality(Vals)

\* index of the first element of layer l in the flattened parameter vector
Offset(l) == SumSeq(SubSeq(LayerNumel, 1, l - 1))

\* self.params: the layers with requires_grad, in model order
TrainableLayers(m) == SelectSeq([l \in Layers |-> l], LAMBDA l : m.requires_grad[l])

\* torch.nn.utils.parameters_to_vector over the layers ls of a model whose
\* flattened parameters are theta: the concatenation in the order of ls
RECURSIVE ParametersToVector(_, _)
ParametersToVector(theta, ls) ==
    IF ls = << >> THEN << >>
    ELSE SubSeq(theta, Offset(Head(ls)) + 1, Offset(Head(ls)) + LayerNumel[Head(ls)])
         \o ParametersToVector(theta, Tail(ls))

\* torch.nn.utils.vector_to_parameters(vec, params): layer by layer, the next
\* numel elements of vec are written into the layer; vec's length is not checked
RECURSIVE VectorToParameters(_, _, _, _)
VectorToParameters(vec, theta, ls, pointer) ==
    IF ls = << >> THEN theta
    ELSE LET l == Head(ls)
             written == [i \in DOMAIN theta |->
                            IF i > Offset(l) /\ i <= Offset(l) + LayerNumel[l]
                            THEN vec[pointer + (i - Offset(l))]
                            ELSE theta[i]]
         IN VectorToParameters(vec, written, Tail(ls), pointer + LayerNumel[l])

\* BaseLaplace.__init__: n_params and n_layers count the trainable layers only
NParams(m) == SumSeq([i \in DOMAIN TrainableLayers(m) |-> LayerNumel[TrainableLayers(m)[i]]])
NLayers(m) == Len(TrainableLayers(m))

\* out.shape[-1] of the model's forward pass
ModelOutputs == 2

----------------------------------------------------------------------------
(* Tensors and scalars handed to the setters.  nd is "py" for a Python     *)
(* number, "0d" for a zero-dimensional tensor, "1d" for a vector.          *)

Py(x) == [nd |-> "py", v |-> <<x>>]
T0(x) == [nd |-> "0d", v |-> <<x>>]
T1(s) == [nd |-> "1d", v |-> s]

\* the outcome of a setter: the exception it raises ("none" when it returns)
\* and the value stored when it returns
Stored(x) == [exc |-> "none", val |-> x]
Raised(e, old) == [exc |-> e, val |-> old]

\* BaseLaplace.prior_mean.setter
PriorMeanSetter(arg, old, n_params) ==
    CASE arg.nd = "py" -> Stored(T0(arg.v[1]))
      [] arg.nd = "0d" -> Stored(T1(arg.v))
      [] arg.nd = "1d" -> IF Len(arg.v) \notin {1, n_params}
                          THEN Raised("ValueError", old)
                          ELSE Stored(arg)

\* BaseLaplace.prior_precision.setter
BasePriorPrecisionSetter(arg, old, n_layers, n_params) ==
    CASE arg.nd = "py" -> Stored(T1(arg.v))
      [] arg.nd = "0d" -> Stored(T1(arg.v))
      [] arg.nd = "1d" -> IF Len(arg.v) \notin {1, n_layers, n_params}
                          THEN Raised("ValueError", old)
                          ELSE Stored(arg)
      [] arg.nd = "2d" -> Raised("ValueError", old)
      [] arg.nd = "str" -> Raised("ValueError", old)

\* KronLaplace.prior_precision.setter: the base setter stores the value, then
\* the length is checked against scalar and per-layer
KronPriorPrecisionSetter(arg, old, n_layers, n_params) ==
    LET base == BasePriorPrecisionSetter(arg, old, n_layers, n_params)
    IN IF base.exc = "none" /\ Len(base.val.v) \notin {1, n_layers}
       THEN Raised("ValueError", base.val)
       ELSE base

PriorPrecisionSetter(cls, arg, old, n_layers, n_params) ==
    IF cls = "KronLaplace"
    THEN KronPriorPrecisionSetter(arg, old, n_layers, n_params)
    ELSE BasePriorPrecisionSetter(arg, old, n_layers, n_params)

\* BaseLaplace.sigma_noise.setter
SigmaNoiseSetter(arg, old) ==
    CASE arg.nd = "py" -> Stored(T0(arg.v[1]))
      [] arg.nd = "0d" -> Stored(arg)
      [] arg.nd = "1d" -> IF Len(arg.v) > 1
                          THEN Raised("ValueError", old)
                          ELSE Stored(T0(arg.v[1]))

----------------------------------------------------------------------------
(* The curvature accumulator H. *)

Classes == {"FullLaplace", "KronLaplace", "LowRankLaplace", "DiagLaplace"}
Likelihoods == {"classification", "regression", "reward_modeling"}

\* laplace.utils.Kron.init_from_model: per parameter, one zero factor for a
\* vector and two zero factors for a matrix
KronInitFromModel(m) ==
    [kind |-> "Kron",
     kfacs |-> [i \in DOMAIN TrainableLayers(m) |->
                   IF LayerNdim[TrainableLayers(m)[i]] = 1
                   THEN << <<0, 1>> >>
                   ELSE << <<0, 1>>, <<0, 1>> >>]]

\* laplace.utils.Kron.__add__: factor by factor
KronAdd(a, b) ==
    [kind |-> "Kron",
     kfacs |-> [i \in DOMAIN a.kfacs |->
                   [j \in DOMAIN a.kfacs[i] |-> RatAdd(a.kfacs[i][j], b.kfacs[i][j])]]]

\* laplace.utils.Kron.decompose(damping): the eigendecomposition of every
\* factor, kept with the damping flag
KronDecompose(k, damping) ==
    [kind |-> "KronDecomposed", kfacs |-> k.kfacs, damping |-> damping]

\* FullLaplace._init_H, KronLaplace._init_H, LowRankLaplace._init_H,
\* DiagLaplace._init_H
InitH(cls, m) ==
    CASE cls = "FullLaplace" -> [kind |-> "Tensor", v |-> 0]
      [] cls = "DiagLaplace" -> [kind |-> "Tensor", v |-> 0]
      [] cls = "KronLaplace" -> KronInitFromModel(m)
      [] cls = "LowRankLaplace" -> [kind |-> "None"]

\* ParametricLaplace._check_H_init: raises when H is None
CheckHInit(H) == IF H.kind = "None" THEN "AttributeError" ELSE "none"

----------------------------------------------------------------------------
(* Construction. *)

\* the constructor arguments explored; prior_precision keeps its default 1.0
DefaultConfig(cls, lik) ==
    [cls |-> cls, likelihood |-> lik, sigma_noise |-> Py(1), temperature |-> 1,
     enable_backprop |-> FALSE, damping |-> FALSE, prior_mean |-> Py(0)]

NonDefault(c) ==
    LET d == DefaultConfig(c.cls, c.likelihood)
    IN Cardinality({f \in {"sigma_noise", "temperature", "enable_backprop",
                            "damping", "prior_mean"} : c[f] # d[f]})

Configs ==
    {c \in [cls : Classes, likelihood : Likelihoods, sigma_noise : {Py(1), Py(2)},
             temperature : {1}, enable_backprop : {FALSE}, damping : BOOLEAN,
             prior_mean : {Py(0), T1(<<1, 1, 1>>)}] :
        /\ NonDefault(c) <= 1
        /\ (c.prior_mean # Py(0) => c.likelihood = "classification")
        /\ (c.damping => c.cls = "KronLaplace")}

\* BaseLaplace.__init__, ParametricLaplace.__init__ and the subclasses'
\* __init__: the exception raised and the fields of the new object
Constructor(c, m) ==
    LET n_params == NParams(m)
        n_layers == NLayers(m)
        pp == PriorPrecisionSetter(c.cls, Py(1), T1(<<1>>), n_layers, n_params)
        pm == PriorMeanSetter(c.prior_mean, T0(0), n_params)
        sn == SigmaNoiseSetter(c.sigma_noise, T0(1))
        exc == IF c.likelihood \notin Likelihoods THEN "ValueError"
               ELSE IF pp.exc # "none" THEN pp.exc
               ELSE IF pm.exc # "none" THEN pm.exc
               ELSE IF c.sigma_noise.v[1] # 1 /\ c.likelihood # "regression"
                    THEN "ValueError"
               ELSE sn.exc
    IN [exc |-> exc,
        la |-> [cls |-> c.cls,
                reward_modeling |-> c.likelihood = "reward_modeling",
                likelihood |-> IF c.likelihood = "reward_modeling"
                               THEN "classification" ELSE c.likelihood,
                n_params |-> n_params,
                n_layers |-> n_layers,
                prior_precision |-> pp.val,
                prior_mean |-> pm.val,
                sigma_noise |-> sn.val,
                temperature |-> c.temperature,
                enable_backprop |-> c.enable_backprop,
                damping |-> c.damping,
                backend |-> None,
                posterior_scale |-> None,
                loss |-> 0,
                n_outputs |-> None,
                n_data |-> 0,
                H_facs |-> None,
                H |-> InitH(c.cls, m),
                mean |-> pm.val]]

\* what a call leaves in `last`
Call(op, args, exc, events, warned) ==
    [op |-> op, args |-> args, exc |-> exc, events |-> events, warned |-> warned]

\* the model as trained by its owner before it is wrapped
InitModel ==
    [theta |-> <<0, 1, 2>>,
     requires_grad |-> <<TRUE, TRUE>>,
     training |-> TRUE,
     output_size |-> None]

\* the mapping returned by state_dict: map is its content, src the exporter's
\* fields at the export, shared the keys whose tensor is also held by the
\* approximation (state_dict and load_state_dict copy no tensor)
Mapping(map, src, shared) == Some([map |-> map, src |-> src, shared |-> shared])

\* the caller's variable is bound to another object: nothing is shared
Unshared(s) == IF IsNone(s) THEN s ELSE Mapping(s[1].map, s[1].src, {})

Init ==
    /\ model = InitModel
    /\ cfg \in Configs
    /\ Constructor(cfg, InitModel).exc = "none"
    /\ la = Constructor(cfg, InitModel).la
    /\ last = Call("__init__", << >>, "none", << >>, {})
    /\ sd = None

\* the caller constructs a new approximation around the same model, of the
\* same class and likelihood: with the same arguments, or with arguments the
\* constructor refuses; the old object is dropped when the constructor returns
Construct ==
    \E c \in Configs :
        LET r == Constructor(c, model)
        IN /\ c.cls = cfg.cls /\ c.likelihood = cfg.likelihood
           /\ c = cfg \/ r.exc # "none"
           /\ la' = IF r.exc = "none" THEN r.la ELSE la
           /\ last' = Call("__init__", << >>, r.exc, << >>, {})
           /\ sd' = IF r.exc = "none" THEN Unshared(sd) ELSE sd
           /\ UNCHANGED <<model, cfg>>

----------------------------------------------------------------------------
(* fit. *)

\* the training loaders explored: the sizes of the batches, in loader order
Loaders == {<<1>>, <<1, 1>>}

\* len(train_loader.dataset)
DatasetLen(loader) == SumSeq(loader)

\* the loss the backend returns for a batch of b examples
LossBatch(b) == 2 * b

\* BaseLaplace.backend: constructed on first use with the likelihood field
\* of that moment, then cached
Backend(l) == IF IsNone(l.backend) THEN Some(l.likelihood) ELSE l.backend

\* FullLaplace._curv_closure, KronLaplace._curv_closure,
\* DiagLaplace._curv_closure: the curvature of a batch of b examples
CurvClosure(cls, b, N, m) ==
    IF cls = "KronLaplace"
    THEN [kind |-> "Kron",
          kfacs |-> [i \in DOMAIN TrainableLayers(m) |->
                        IF LayerNdim[TrainableLayers(m)[i]] = 1
                        THEN << Rat(b, 1) >>
                        ELSE << Rat(b, 1), Rat(b, 1) >>]]
    ELSE [kind |-> "Tensor", v |-> b]

\* self.H += H_batch
HAdd(H, Hb) ==
    IF H.kind = "Tensor" THEN [kind |-> "Tensor", v |-> H.v + Hb.v]
    ELSE KronAdd(H, Hb)

\* the loop over the batches of ParametricLaplace.fit
RECURSIVE FitBatches(_, _, _, _)
FitBatches(l, m, batches, N) ==
    IF batches = << >> THEN l
    ELSE FitBatches([l EXCEPT !.backend = Backend(l),
                               !.loss = l.loss + LossBatch(Head(batches)),
                               !.H = HAdd(l.H, CurvClosure(l.cls, Head(batches), N, m))],
                    m, Tail(batches), N)

\* a fit that resets nothing
NoReset(l, m, override) == l

\* the reset ParametricLaplace.fit makes when override is set
FitReset(l, m, override) ==
    IF override
    THEN [l EXCEPT !.H = InitH(l.cls, m), !.loss = 0, !.n_data = 0]
    ELSE l

\* a count that keeps the last dataset's size only
CountLast(n_data, N) == N

\* self.n_data += N
FitCount(n_data, N) == n_data + N

\* ParametricLaplace.fit
ParametricFit(l, m, loader, override) ==
    LET l1 == FitReset(l, m, override)
        m1 == [m EXCEPT !.training = FALSE]
        l2 == [l1 EXCEPT !.mean = T1(ParametersToVector(m1.theta, TrainableLayers(m1))),
                         !.n_outputs = Some(ModelOutputs)]
        m2 == [m1 EXCEPT !.output_size = Some(ModelOutputs)]
        N == DatasetLen(loader)
        l3 == FitBatches(l2, m2, loader, N)
    IN [exc |-> "none",
        la |-> [l3 EXCEPT !.n_data = FitCount(l3.n_data, N)],
        model |-> m2]

\* FullLaplace.fit
FullFit(l, m, loader, override) ==
    ParametricFit([l EXCEPT !.posterior_scale = None], m, loader, override)

\* KronLaplace._rescale_factors: the second factor of every group of two
KronRescale(kron, factor) ==
    [kron EXCEPT !.kfacs = [i \in DOMAIN kron.kfacs |->
        IF Len(kron.kfacs[i]) = 2
        THEN [kron.kfacs[i] EXCEPT ![2] = RatMul(kron.kfacs[i][2], factor)]
        ELSE kron.kfacs[i]]]

\* KronLaplace.fit
KronFit(l, m, loader, override) ==
    LET facs0 == IF override THEN None ELSE l.H_facs
        online == ~IsNone(facs0)
        n_data_old == l.n_data
        n_data_new == DatasetLen(loader)
        l1 == IF online
              THEN [l EXCEPT !.H = InitH(l.cls, m),
                             !.H_facs = Some(KronRescale(facs0[1],
                                 Rat(n_data_old, n_data_old + n_data_new)))]
              ELSE [l EXCEPT !.H_facs = None]
        r == ParametricFit(l1, m, loader, override)
        facs2 == IF IsNone(r.la.H_facs)
                 THEN r.la.H
                 ELSE KronAdd(r.la.H_facs[1],
                              KronRescale(r.la.H, Rat(n_data_new, n_data_new + n_data_old)))
    IN [exc |-> "none",
        la |-> [r.la EXCEPT !.H_facs = Some(facs2),
                            !.H = KronDecompose(facs2, l.damping)],
        model |-> r.model]

\* AsdfghjklHessian.eig_lowrank(train_loader): the eigenpairs and the loss of
\* the whole loader
EigLowrank(loader) ==
    [H |-> [kind |-> "Eig", v |-> SumSeq(loader)],
     loss |-> SumSeq([i \in DOMAIN loader |-> LossBatch(loader[i])])]

\* a refusal made after the model was put into evaluation mode
RefuseAfterEval(l, m) ==
    [exc |-> "ValueError", la |-> l, model |-> [m EXCEPT !.training = FALSE]]

\* the point of LowRankLaplace.fit at which override=False is refused
LowRankRefuse(l, m) == [exc |-> "ValueError", la |-> l, model |-> m]

\* LowRankLaplace.fit
LowRankFit(l, m, loader, override) ==
    IF ~override THEN LowRankRefuse(l, m)
    ELSE LET m1 == [m EXCEPT !.training = FALSE, !.output_size = Some(ModelOutputs)]
             eig == EigLowrank(loader)
         IN [exc |-> "none",
             la |-> [l EXCEPT !.mean = T1(ParametersToVector(m.theta, [i \in Layers |-> i])),
                              !.n_outputs = Some(ModelOutputs),
                              !.backend = Backend(l),
                              !.H = eig.H,
                              !.loss = eig.loss,
                              !.n_data = DatasetLen(loader)],
             model |-> m1]

FitCall(l, m, loader, override) ==
    CASE l.cls = "FullLaplace" -> FullFit(l, m, loader, override)
      [] l.cls = "KronLaplace" -> KronFit(l, m, loader, override)
      [] l.cls = "LowRankLaplace" -> LowRankFit(l, m, loader, override)
      [] l.cls = "DiagLaplace" -> ParametricFit(l, m, loader, override)

\* the tensors of l that a mapping made from l holds too: H, and the loss
\* once it is a tensor (it is the Python number 0 until a batch was added)
SharedTensors(l) == {"H"} \cup (IF l.n_data > 0 THEN {"loss"} ELSE {})

\* what fit does to a mapping returned earlier.  override=True rebinds H and
\* loss.  Otherwise `self.loss += loss_batch` and `self.H += H_batch` work in
\* place on the shared tensors; KronLaplace._rescale_factors multiplies the
\* second factors of the shared lists in place, and `self.H_facs += self.H`
\* then binds H_facs to a new Kron
FitMapping(s, l, r, loader, override) ==
    IF IsNone(s) \/ r.exc # "none" THEN s
    ELSE IF override THEN Unshared(s)
    ELSE LET d == s[1].map
             n_old == l.n_data
             n_new == DatasetLen(loader)
             loss == IF "loss" \in s[1].shared THEN r.la.loss ELSE d.loss
         IN IF "H" \notin s[1].shared
            THEN Mapping([d EXCEPT !.loss = loss], s[1].src, s[1].shared)
            ELSE IF l.cls = "KronLaplace"
            THEN Mapping([d EXCEPT !.loss = loss,
                                   !.H = [kind |-> "kfacs",
                                          kfacs |-> KronRescale(l.H_facs[1],
                                              Rat(n_old, n_old + n_new)).kfacs]],
                         s[1].src, s[1].shared \ {"H"})
            ELSE Mapping([d EXCEPT !.loss = loss, !.H = r.la.H], s[1].src, s[1].shared)

\* loss and curvature are those of n_data examples: true of every object
\* that was only constructed and fitted, false of one that loaded a mapping
\* changed in place after its export
Accumulated(l) ==
    /\ l.loss = LossBatch(l.n_data)
    /\ l.H.kind = "Tensor" => l.H.v = l.n_data

\* fit; override=False is explored while n_data stays within MaxData, from
\* the objects whose loss and curvature are those of n_data examples
Fit ==
    \E loader \in Loaders, override \in BOOLEAN :
        /\ override \/ la.n_data + DatasetLen(loader) <= MaxData
        /\ override \/ Accumulated(la)
        /\ \E r \in {FitCall(la, model, loader, override)} :
              /\ la' = r.la
              /\ model' = r.model
              /\ last' = Call("fit", [loader |-> loader, override |-> override],
                              r.exc, << >>, {})
              /\ sd' = FitMapping(sd, la, r, loader, override)
        /\ UNCHANGED cfg

----------------------------------------------------------------------------
(* The steps of one fit. *)

\* a step of fit: what was done, on which batch of the loader, with which N,
\* and the loss and curvature accumulated once the step is made
Step(ev, i, N, l) == [ev |-> ev, i |-> i, N |-> N, loss |-> l.loss, H |-> l.H]

\* the accumulators the loop of ParametricLaplace.fit starts from: reset on
\* override; KronLaplace.fit makes H an empty Kron for every fit
FitEntry(l, m, override) ==
    LET l1 == FitReset(l, m, override)
    IN IF l.cls = "KronLaplace" THEN [l1 EXCEPT !.H = InitH(l.cls, m)] ELSE l1

\* an iteration that calls the backend on the gradients left by the one
\* before
BatchStepStaleGrad(l, m, batches, i, N) ==
    LET l1 == FitBatches(l, m, <<batches[i]>>, N)
    IN [la |-> l1, events |-> << Step("backend", i, N, l1) >>]

\* one iteration of the loop: self.model.zero_grad(), then
\* self._curv_closure(X, y, N) and both accumulations
BatchStep(l, m, batches, i, N) ==
    LET l1 == FitBatches(l, m, <<batches[i]>>, N)
    IN [la |-> l1,
        events |-> << Step("zero_grad", i, 0, l), Step("backend", i, N, l1) >>]

\* `for data in pbar`, from batch i on
RECURSIVE FitLoop(_, _, _, _, _)
FitLoop(l, m, batches, i, N) ==
    IF i > Len(batches) THEN [la |-> l, events |-> << >>]
    ELSE CHOOSE t \in {[la |-> rest.la, events |-> s.events \o rest.events] :
               rest \in {FitLoop(s.la, m, batches, i + 1, N) :
                            s \in {BatchStep(l, m, batches, i, N)}},
               s \in {BatchStep(l, m, batches, i, N)}} : TRUE

\* the steps of fit: the probe of the first batch under no_grad, the loop,
\* `self.n_data += N`; LowRankLaplace.fit hands the whole loader to
\* eig_lowrank after its probe
FitEvents(l, m, loader, override) ==
    IF l.cls = "LowRankLaplace"
    THEN IF override
         THEN << Step("probe", 1, 0, l),
                 Step("eig_lowrank", 0, 0, FitCall(l, m, loader, override).la) >>
         ELSE << >>
    ELSE CHOOSE t \in {<< Step("probe", 1, 0, FitEntry(l, m, override)) >>
                         \o r.events
                         \o << Step("n_data", 0, DatasetLen(loader), r.la) >> :
               r \in {FitLoop(FitEntry(l, m, override), m, loader, 1,
                              DatasetLen(loader))}} : TRUE

\* fit, with its steps recorded
FitSteps ==
    \E loader \in Loaders, override \in BOOLEAN :
        /\ override \/ la.n_data + DatasetLen(loader) <= MaxData
        /\ override \/ Accumulated(la)
        /\ \E r \in {FitCall(la, model, loader, override)} :
              /\ la' = r.la
              /\ model' = r.model
              /\ last' = Call("fit", [loader |-> loader, override |-> override],
                              r.exc, FitEvents(la, model, loader, override), {})
              /\ sd' = FitMapping(sd, la, r, loader, override)
        /\ UNCHANGED cfg

----------------------------------------------------------------------------
(* Sampling from the posterior. *)

Numel(t) == IF t.nd = "1d" THEN Len(t.v) ELSE 1

\* invsqrt_precision(self.posterior_precision): the scale is a function of H,
\* the prior precision, sigma_noise and the temperature of that moment
ComputeScale(l) ==
    Some([H |-> l.H, prior_precision |-> l.prior_precision,
          sigma_noise |-> l.sigma_noise, temperature |-> l.temperature])

\* FullLaplace.posterior_scale: computed when the cache is empty
WithPosteriorScale(l) ==
    IF IsNone(l.posterior_scale) THEN [l EXCEPT !.posterior_scale = ComputeScale(l)] ELSE l

\* KronLaplace.posterior_precision on the non-decomposed Kron of an unfitted
\* object: Kron + tensor is refused by laplace.utils.Kron.__add__
KronPosteriorPrecisionExc(H) ==
    IF CheckHInit(H) # "none" THEN CheckHInit(H)
    ELSE IF H.kind = "Kron" THEN "ValueError"
    ELSE "none"

\* FullLaplace.sample, KronLaplace.sample, LowRankLaplace.sample,
\* DiagLaplace.sample: the exception raised, the object afterwards (the
\* cached scale) and the length of every sample
SampleCall(l) ==
    LET reshape == IF Numel(l.mean) = l.n_params THEN "none" ELSE "RuntimeError"
    IN CASE l.cls = "FullLaplace" ->
              [exc |-> IF CheckHInit(l.H) # "none" THEN CheckHInit(l.H) ELSE reshape,
               la |-> IF CheckHInit(l.H) # "none" THEN l ELSE WithPosteriorScale(l),
               len |-> l.n_params]
         [] l.cls = "DiagLaplace" ->
              [exc |-> IF CheckHInit(l.H) # "none" THEN CheckHInit(l.H) ELSE reshape,
               la |-> l, len |-> l.n_params]
         [] l.cls = "KronLaplace" ->
              [exc |-> IF KronPosteriorPrecisionExc(l.H) # "none"
                       THEN KronPosteriorPrecisionExc(l.H) ELSE reshape,
               la |-> l, len |-> l.n_params]
         [] l.cls = "LowRankLaplace" ->
              [exc |-> IF CheckHInit(l.H) # "none" THEN CheckHInit(l.H)
                       ELSE IF Numel(l.mean) = l.n_params \/ Numel(l.mean) = 1
                               \/ l.n_params = 1
                            THEN "none" ELSE "RuntimeError",
               la |-> l, len |-> Max(Numel(l.mean), l.n_params)]

\* sample number k: the mean, broadcast to the sample's length, moved by the
\* k-th draw ds[k] (a draw is never zero)
SampleVector(l, len, d) ==
    [i \in 1..len |-> Shift(IF Numel(l.mean) = 1 THEN l.mean.v[1] ELSE l.mean.v[i], d)]

----------------------------------------------------------------------------
(* Prediction with pred_type='nn'. *)

Event(ev, k, ok) == [ev |-> ev, k |-> k, ok |-> ok]

\* a loop that ends without writing the mean back
NoRestore(l, m, theta, events) == [exc |-> "none", theta |-> theta, events |-> events]

\* vector_to_parameters(self.mean, self.params) after the loop
Restore(l, m, theta, events) ==
    IF l.mean.nd # "1d" THEN [exc |-> "IndexError", theta |-> theta, events |-> events]
    ELSE IF Len(l.mean.v) < l.n_params
    THEN [exc |-> "RuntimeError", theta |-> theta, events |-> events]
    ELSE [exc |-> "none",
          theta |-> VectorToParameters(l.mean.v, theta, TrainableLayers(m), 0),
          events |-> Append(events, Event("restore", 0, TRUE))]

\* what happens when the forward pass of sample k raises
ForwardRaised(l, m, theta, events) ==
    [exc |-> "RuntimeError", theta |-> theta, events |-> events]

\* the loop of _nn_predictive_samples and of _nn_predictive_classification
\* from sample k on; the forward pass of sample failAt raises (0: none does)
RECURSIVE SampleLoop(_, _, _, _, _, _, _, _)
SampleLoop(l, m, theta, len, ds, k, failAt, events) ==
    IF k > Len(ds) THEN Restore(l, m, theta, events)
    ELSE LET sample == SampleVector(l, len, ds[k])
             installed == VectorToParameters(sample, theta, TrainableLayers(m), 0)
             ev1 == Append(events, Event("install", k, TRUE))
             ev2 == Append(ev1, Event("forward", k,
                        ParametersToVector(installed, TrainableLayers(m))
                          = SubSeq(sample, 1, l.n_params)))
         IN IF failAt = k THEN ForwardRaised(l, m, installed, ev2)
            ELSE SampleLoop(l, m, installed, len, ds, k + 1, failAt, ev2)

\* the outcome of the sampling loop, once sample() has returned s
NNResult(s, m, r) ==
    [exc |-> r.exc, la |-> s.la, model |-> [m EXCEPT !.theta = r.theta],
     events |-> r.events]

NNAfterSample(s, m, ds, failAt) ==
    IF s.exc # "none"
    THEN [exc |-> s.exc, la |-> s.la, model |-> m, events |-> << >>]
    ELSE NNResult(s, m, SampleLoop(s.la, m, m.theta, s.len, ds, 1, failAt, << >>))

\* ParametricLaplace._nn_predictive_samples and _nn_predictive_classification
NNPredictive(l, m, ds, failAt) == NNAfterSample(SampleCall(l), m, ds, failAt)

----------------------------------------------------------------------------
(* Prediction: ParametricLaplace.__call__. *)

\* ParametricLaplace._glm_predictive_distribution with the functional
\* variance of the class: the backend is constructed on first use, Full caches
\* its scale, Kron and LowRank need a fitted H
GLMPredictive(l, m) ==
    LET l1 == [l EXCEPT !.backend = Backend(l)]
    IN CASE l.cls = "FullLaplace" ->
              [exc |-> CheckHInit(l.H),
               la |-> IF CheckHInit(l.H) = "none" THEN WithPosteriorScale(l1) ELSE l1,
               model |-> m, events |-> << >>]
         [] l.cls = "DiagLaplace" ->
              [exc |-> CheckHInit(l.H), la |-> l1, model |-> m, events |-> << >>]
         [] l.cls = "KronLaplace" ->
              [exc |-> KronPosteriorPrecisionExc(l.H), la |-> l1, model |-> m,
               events |-> << >>]
         [] l.cls = "LowRankLaplace" ->
              [exc |-> CheckHInit(l.H), la |-> l1, model |-> m, events |-> << >>]

\* the relabel of a reward-modeling approximation at its first prediction
Relabel(l, m) ==
    IF l.reward_modeling /\ l.likelihood = "classification"
    THEN [la |-> [l EXCEPT !.likelihood = "regression"],
          model |-> [m EXCEPT !.output_size = Some(1)]]
    ELSE [la |-> l, model |-> m]

\* a __call__ that relabels before it validates its arguments
RelabelBeforeChecks(l, m, a, ds, failAt) ==
    LET r == Relabel(l, m)
        refused == [exc |-> "ValueError", la |-> r.la, model |-> r.model,
                    events |-> << >>]
    IN IF a.pred_type \notin {"glm", "nn"} THEN refused
       ELSE IF a.link_approx \notin {"mc", "probit", "bridge", "bridge_norm"} THEN refused
       ELSE IF a.pred_type = "nn" /\ a.link_approx # "mc" THEN refused
       ELSE IF a.generator = "invalid" THEN refused
       ELSE IF a.pred_type = "glm" THEN GLMPredictive(r.la, r.model)
       ELSE NNPredictive(r.la, r.model, ds, failAt)

\* ParametricLaplace.__call__
PredictCall(l, m, a, ds, failAt) ==
    LET refused == [exc |-> "ValueError", la |-> l, model |-> m, events |-> << >>]
        r == Relabel(l, m)
    IN IF a.pred_type \notin {"glm", "nn"} THEN refused
       ELSE IF a.link_approx \notin {"mc", "probit", "bridge", "bridge_norm"} THEN refused
       ELSE IF a.pred_type = "nn" /\ a.link_approx # "mc" THEN refused
       ELSE IF a.generator = "invalid" THEN refused
       ELSE IF a.pred_type = "glm" THEN GLMPredictive(r.la, r.model)
       ELSE NNPredictive(r.la, r.model, ds, failAt)

\* the draws of one sample, and the arguments of the prediction calls explored
Draws == {1, 2}

PredictArgs ==
    {a \in [pred_type : {"glm", "nn", "gp"}, link_approx : {"mc", "probit", "logit"},
             generator : {"None", "invalid"}] :
        /\ a.generator = "invalid" => (a.pred_type = "nn" /\ a.link_approx = "mc")
        /\ a.pred_type = "gp" => a.link_approx = "probit"
        /\ a.link_approx = "logit" => a.pred_type = "glm"
        /\ a.link_approx = "mc" => a.pred_type = "nn"}

NNArgs == [pred_type |-> "nn", link_approx |-> "mc", generator |-> "None"]

\* a call that is refused, or a GLM prediction
PredictGLM ==
    \E a \in PredictArgs \ {NNArgs} :
        \E r \in {PredictCall(la, model, a, <<1>>, 0)} :
           /\ la' = r.la
           /\ model' = r.model
           /\ last' = Call("__call__", a, r.exc, r.events, {})
           /\ UNCHANGED <<sd, cfg>>

\* one GLM prediction with the probit approximation
ProbitArgs == [pred_type |-> "glm", link_approx |-> "probit", generator |-> "None"]

PredictProbit ==
    \E r \in {PredictCall(la, model, ProbitArgs, <<1>>, 0)} :
       /\ la' = r.la
       /\ model' = r.model
       /\ last' = Call("__call__", ProbitArgs, r.exc, r.events, {})
       /\ UNCHANGED <<sd, cfg>>

\* a prediction with pred_type='nn' of n_samples draws in which every
\* forward pass returns
PredictNN ==
    \E n \in 1..MaxSamples :
      \E ds \in [1..n -> Draws] :
        \E r \in {PredictCall(la, model, NNArgs, ds, 0)} :
           /\ la' = r.la
           /\ model' = r.model
           /\ last' = Call("__call__", NNArgs, r.exc, r.events, {})
           /\ UNCHANGED <<sd, cfg>>

\* a prediction with pred_type='nn' in which the forward pass of sample
\* failAt raises
PredictNNForwardRaises ==
    \E n \in 1..MaxSamples :
      \E ds \in [1..n -> Draws], failAt \in 1..n :
        \E r \in {PredictCall(la, model, NNArgs, ds, failAt)} :
           /\ la' = r.la
           /\ model' = r.model
           /\ last' = Call("__call__", NNArgs, r.exc, r.events, {})
           /\ UNCHANGED <<sd, cfg>>

----------------------------------------------------------------------------
(* Serialization: state_dict and load_state_dict. *)

\* ParametricLaplace.state_dict
ParametricStateDict(l) ==
    [exc |-> CheckHInit(l.H),
     map |-> [mean |-> l.mean,
              H |-> l.H,
              loss |-> l.loss,
              prior_mean |-> l.prior_mean,
              prior_precision |-> l.prior_precision,
              sigma_noise |-> l.sigma_noise,
              n_data |-> l.n_data,
              n_outputs |-> l.n_outputs,
              likelihood |-> l.likelihood,
              temperature |-> l.temperature,
              enable_backprop |-> l.enable_backprop,
              cls_name |-> l.cls]]

\* what KronLaplace.state_dict exports as H: the factors of H_facs
KronExportedH(l) == [kind |-> "kfacs", kfacs |-> l.H_facs[1].kfacs]

\* KronLaplace.state_dict: self.H_facs is None before the first fit
KronStateDict(l) ==
    IF ParametricStateDict(l).exc # "none" THEN ParametricStateDict(l)
    ELSE IF IsNone(l.H_facs)
    THEN [exc |-> "AttributeError", map |-> ParametricStateDict(l).map]
    ELSE [exc |-> "none",
          map |-> [ParametricStateDict(l).map EXCEPT !.H = KronExportedH(l)]]

StateDictCall(l) ==
    IF l.cls = "KronLaplace" THEN KronStateDict(l) ELSE ParametricStateDict(l)

\* checks that do not look at the type tag
SkipClassCheck(l, d) ==
    IF d.mean.nd # "1d" THEN "TypeError"
    ELSE IF Len(d.mean.v) # l.n_params THEN "ValueError"
    ELSE IF l.likelihood # d.likelihood THEN "ValueError"
    ELSE "none"

\* the three fatal checks of ParametricLaplace.load_state_dict, in order;
\* len() of a zero-dimensional mean is a TypeError
LoadChecks(l, d) ==
    IF l.cls # d.cls_name THEN "ValueError"
    ELSE IF d.mean.nd # "1d" THEN "TypeError"
    ELSE IF Len(d.mean.v) # l.n_params THEN "ValueError"
    ELSE IF l.likelihood # d.likelihood THEN "ValueError"
    ELSE "none"

\* the warnings of ParametricLaplace.load_state_dict
LoadWarnings(l, d) ==
    (IF l.temperature # d.temperature THEN {"temperature"} ELSE {})
    \cup (IF l.enable_backprop # d.enable_backprop THEN {"enable_backprop"} ELSE {})

\* a load that writes the mean and nothing else
WritesMeanOnly(l, m, d) ==
    [exc |-> "none", la |-> [l EXCEPT !.mean = d.mean], model |-> m]

\* the writes of ParametricLaplace.load_state_dict, in order; a setter that
\* raises ends them
LoadWrites(l, m, d) ==
    LET l1 == [l EXCEPT !.mean = d.mean, !.H = d.H, !.loss = d.loss]
        pm == PriorMeanSetter(d.prior_mean, l1.prior_mean, l1.n_params)
        l2 == [l1 EXCEPT !.prior_mean = pm.val]
        pp == PriorPrecisionSetter(l2.cls, d.prior_precision, l2.prior_precision,
                                   l2.n_layers, l2.n_params)
        l3 == [l2 EXCEPT !.posterior_scale = None, !.prior_precision = pp.val]
        sn == SigmaNoiseSetter(d.sigma_noise, l3.sigma_noise)
        l4 == [l3 EXCEPT !.posterior_scale = None, !.sigma_noise = sn.val]
        l5 == [l4 EXCEPT !.n_data = d.n_data, !.n_outputs = d.n_outputs,
                         !.likelihood = d.likelihood, !.temperature = d.temperature,
                         !.enable_backprop = d.enable_backprop]
    IN IF pm.exc # "none" THEN [exc |-> pm.exc, la |-> l1, model |-> m]
       ELSE IF pp.exc # "none" THEN [exc |-> pp.exc, la |-> l3, model |-> m]
       ELSE IF sn.exc # "none" THEN [exc |-> sn.exc, la |-> l4, model |-> m]
       ELSE [exc |-> "none", la |-> l5,
             model |-> [m EXCEPT !.output_size = d.n_outputs]]

\* a load that makes its writes first and its checks afterwards
LoadWritesBeforeChecks(l, m, d) ==
    IF LoadChecks(l, d) # "none"
    THEN [exc |-> LoadChecks(l, d), la |-> LoadWrites(l, m, d).la,
          model |-> LoadWrites(l, m, d).model, warned |-> {}]
    ELSE [exc |-> LoadWrites(l, m, d).exc, la |-> LoadWrites(l, m, d).la,
          model |-> LoadWrites(l, m, d).model, warned |-> LoadWarnings(l, d)]

\* ParametricLaplace.load_state_dict
ParametricLoad(l, m, d) ==
    IF LoadChecks(l, d) # "none"
    THEN [exc |-> LoadChecks(l, d), la |-> l, model |-> m, warned |-> {}]
    ELSE [exc |-> LoadWrites(l, m, d).exc, la |-> LoadWrites(l, m, d).la,
          model |-> LoadWrites(l, m, d).model, warned |-> LoadWarnings(l, d)]

\* the part of KronLaplace.load_state_dict after the inherited one returned
KronLoadFactors(l, m, d) ==
    [l EXCEPT !.H_facs = Some([KronInitFromModel(m) EXCEPT !.kfacs = d.H.kfacs]),
              !.H = KronDecompose([kind |-> "Kron", kfacs |-> d.H.kfacs], l.damping)]

\* KronLaplace.load_state_dict
KronLoad(l, m, d) ==
    IF ParametricLoad(l, m, d).exc # "none" THEN ParametricLoad(l, m, d)
    ELSE [ParametricLoad(l, m, d) EXCEPT !.la = KronLoadFactors(@, m, d)]

LoadCall(l, m, d) ==
    IF l.cls = "KronLaplace" THEN KronLoad(l, m, d) ELSE ParametricLoad(l, m, d)

\* the fields of the exporting object that an import is to reproduce
Exported(l) ==
    [mean |-> l.mean, H |-> l.H, H_facs |-> l.H_facs, loss |-> l.loss,
     prior_mean |-> l.prior_mean, prior_precision |-> l.prior_precision,
     sigma_noise |-> l.sigma_noise, n_data |-> l.n_data, n_outputs |-> l.n_outputs,
     temperature |-> l.temperature]

StateDict ==
    \E r \in {StateDictCall(la)} :
        /\ sd' = IF r.exc = "none" THEN Mapping(r.map, Exported(la), SharedTensors(la))
                 ELSE sd
        /\ last' = Call("state_dict", << >>, r.exc, << >>, {})
        /\ UNCHANGED <<model, la, cfg>>

\* the mappings handed to load_state_dict: the one state_dict returned, or one
\* written by another approximation, which differs from it in the named field
OtherLikelihood(k) == IF k = "regression" THEN "classification" ELSE "regression"
OtherTemperature(t) == IF t = 1 THEN 2 ELSE 1

FatalTampers == {"none", "cls_name", "mean", "likelihood"}
WarnedTampers == {"temperature", "enable_backprop", "temperature+enable_backprop"}

Tamper(d, t) ==
    CASE t = "none" -> d
      [] t = "cls_name" -> [d EXCEPT !.cls_name = IF @ = "DiagLaplace"
                                                  THEN "FullLaplace" ELSE "DiagLaplace"]
      [] t = "mean" -> [d EXCEPT !.mean = IF @.nd = "1d"
                                          THEN T1(SubSeq(@.v, 1, Len(@.v) - 1)) ELSE @]
      [] t = "likelihood" -> [d EXCEPT !.likelihood = OtherLikelihood(@)]
      [] t = "temperature" -> [d EXCEPT !.temperature = OtherTemperature(@)]
      [] t = "enable_backprop" -> [d EXCEPT !.enable_backprop = ~@]
      [] t = "temperature+enable_backprop" ->
            [d EXCEPT !.temperature = OtherTemperature(@), !.enable_backprop = ~@]

\* the arguments of the constructor call that made object l
Fresh(l, m) == l = Constructor(cfg, m).la

LoadWith(t) ==
    /\ ~IsNone(sd)
    /\ \E r \in {LoadCall(la, model, Tamper(sd[1].map, t))} :
          /\ la' = r.la
          /\ model' = r.model
          /\ last' = Call("load_state_dict",
                          [tamper |-> t, fresh |-> Fresh(la, model)],
                          r.exc, << >>, r.warned)
          /\ sd' = IF r.la = la /\ r.exc # "none" THEN sd
                   ELSE IF t = "none"
                   THEN Mapping(sd[1].map, sd[1].src, SharedTensors(r.la))
                   ELSE Unshared(sd)
    /\ UNCHANGED cfg

\* load_state_dict of the exported mapping, or of one whose type tag, mean
\* or likelihood is another's
Load == \E t \in FatalTampers : LoadWith(t)

\* load_state_dict of a mapping whose temperature or enable_backprop flag is
\* another's
LoadOtherTemperature == \E t \in WarnedTampers : LoadWith(t)

----------------------------------------------------------------------------
(* Assignments to the hyperparameters and the log marginal likelihood. *)

\* an assignment that leaves the cached scale of FullLaplace in place
AssignKeepsScale(l, field, r) ==
    [exc |-> r.exc, la |-> [l EXCEPT ![field] = r.val]]

\* the body of the prior_precision and sigma_noise setters: the cached scale
\* is dropped first, then the value is converted and stored, or refused
Assign(l, field, r) ==
    [exc |-> r.exc, la |-> [l EXCEPT !.posterior_scale = None, ![field] = r.val]]

\* la.prior_precision = arg
AssignPriorPrecision(l, arg) ==
    Assign(l, "prior_precision",
           PriorPrecisionSetter(l.cls, arg, l.prior_precision, l.n_layers, l.n_params))

\* la.sigma_noise = arg
AssignSigmaNoise(l, arg) ==
    Assign(l, "sigma_noise", SigmaNoiseSetter(arg, l.sigma_noise))

\* the values assigned: a scalar, one value per layer, a vector of a length
\* that is refused
PrecisionArgs == {Py(2), T1(<<1, 2>>), T1(<<2, 2, 2, 2>>)}
SigmaArgs == {Py(1), Py(2), T1(<<1, 2>>)}

SetPriorPrecision ==
    \E arg \in PrecisionArgs :
        \E r \in {AssignPriorPrecision(la, arg)} :
           /\ la' = r.la
           /\ last' = Call("prior_precision", [value |-> arg], r.exc, << >>, {})
           /\ UNCHANGED <<model, sd, cfg>>

\* every kind of value assigned to prior_precision: a scalar, one value per
\* layer, one per parameter, a vector of another length, a matrix, a string
T2(s) == [nd |-> "2d", v |-> s]
Str(s) == [nd |-> "str", v |-> s]
AllPrecisionArgs ==
    PrecisionArgs \cup {T1(<<2, 2, 2>>), T2(<<2, 2>>), Str(<<2>>)}

\* la.prior_precision = arg, for every kind of value
SetAnyPriorPrecision ==
    \E arg \in AllPrecisionArgs :
        \E r \in {AssignPriorPrecision(la, arg)} :
           /\ la' = r.la
           /\ last' = Call("prior_precision", [value |-> arg], r.exc, << >>, {})
           /\ UNCHANGED <<model, sd, cfg>>

\* la.prior_precision = arg with one value per layer, or one per parameter
PerLayerOrParameter == {T1(<<1, 2>>), T1(<<2, 2, 2>>)}

SetVectorPriorPrecision ==
    \E arg \in PerLayerOrParameter :
        \E r \in {AssignPriorPrecision(la, arg)} :
           /\ la' = r.la
           /\ last' = Call("prior_precision", [value |-> arg], r.exc, << >>, {})
           /\ UNCHANGED <<model, sd, cfg>>

\* la.temperature = t: temperature is a plain attribute, the assignment
\* writes the field and nothing else
AssignTemperature(l, t) == [exc |-> "none", la |-> [l EXCEPT !.temperature = t]]

\* the temperatures assigned
Temperatures == {1, 2}

SetTemperature ==
    \E t \in Temperatures :
        \E r \in {AssignTemperature(la, t)} :
           /\ la' = r.la
           /\ last' = Call("temperature", [value |-> t], r.exc, << >>, {})
           /\ UNCHANGED <<model, sd, cfg>>

SetSigmaNoise ==
    \E arg \in SigmaArgs :
        \E r \in {AssignSigmaNoise(la, arg)} :
           /\ la' = r.la
           /\ last' = Call("sigma_noise", [value |-> arg], r.exc, << >>, {})
           /\ UNCHANGED <<model, sd, cfg>>

\* the exception of log_likelihood - 0.5 * (log_det_ratio + scatter): the
\* Gaussian normalizer multiplies n_data by n_outputs, which is None before
\* the first fit; LowRank reads its posterior precision through _check_H_init
MarglikExc(l) ==
    IF l.likelihood = "regression" /\ IsNone(l.n_outputs) THEN "TypeError"
    ELSE IF l.cls = "LowRankLaplace" THEN CheckHInit(l.H)
    ELSE "none"

\* a log_marginal_likelihood that evaluates at the given values and leaves
\* the stored ones as they were
MarglikKeepsStored(l, pp, sn) ==
    IF ~IsNone(sn) /\ l.likelihood # "regression"
    THEN [exc |-> "ValueError", la |-> l]
    ELSE [exc |-> MarglikExc(l), la |-> l]

\* ParametricLaplace.log_marginal_likelihood(prior_precision, sigma_noise),
\* an argument being None when it is not given
MarglikCall(l, pp, sn) ==
    LET p == IF IsNone(pp) THEN [exc |-> "none", la |-> l]
             ELSE AssignPriorPrecision(l, pp[1])
    IN IF p.exc # "none" THEN p
       ELSE IF IsNone(sn) THEN [exc |-> MarglikExc(p.la), la |-> p.la]
       ELSE IF p.la.likelihood # "regression" THEN [exc |-> "ValueError", la |-> p.la]
       ELSE LET s == AssignSigmaNoise(p.la, sn[1])
            IN IF s.exc # "none" THEN s
               ELSE [exc |-> MarglikExc(s.la), la |-> s.la]

LogMarginalLikelihood ==
    \E pp \in {None, Some(Py(2))}, sn \in {None, Some(Py(2))} :
        \E r \in {MarglikCall(la, pp, sn)} :
           /\ la' = r.la
           /\ last' = Call("log_marginal_likelihood",
                           [prior_precision |-> pp, sigma_noise |-> sn],
                           r.exc, << >>, {})
           /\ UNCHANGED <<model, sd, cfg>>

----------------------------------------------------------------------------
(* optimize_prior_precision(method='gridsearch'). *)

\* torch.logspace(log_prior_prec_min, log_prior_prec_max, grid_size): the
\* grid values, increasing and distinct
Interval(grid_size) == [k \in 1..grid_size |-> k]

\* the losses a validation returns, and np.inf, above every one of them
Losses == {0, 1}
Inf == 2

\* what laplace.utils.validate does at one grid point after its prediction:
\* it returns a loss, or raises RuntimeError, or raises another exception
GridOutcomes ==
    [kind : {"loss"}, v : Losses]
        \cup {[kind |-> "RuntimeError", v |-> 0], [kind |-> "ValueError", v |-> 0]}

\* laplace.utils.validate(self, val_loader, loss, pred_type='glm',
\* link_approx='probit'): the prediction, then the loss
Validate(l, m, o) ==
    LET p == PredictCall(l, m, ProbitArgs, <<1>>, 0)
    IN IF p.exc # "none" THEN [exc |-> p.exc, la |-> p.la, model |-> p.model, result |-> 0]
       ELSE [exc |-> IF o.kind = "loss" THEN "none" ELSE o.kind,
             la |-> p.la, model |-> p.model, result |-> o.v]

\* a score that counts a grid point whose validation raised as the best one
ScoreZero(v) == 0

\* the try/except of _gridsearch: RuntimeError is scored as np.inf
Score(v) == IF v.exc = "RuntimeError" THEN Inf ELSE v.result

\* an argmin that is the last index
LastIndex(results) == Len(results)

\* np.argmin: the first index of the smallest value
ArgMin(results) ==
    CHOOSE i \in 1..Len(results) :
        /\ \A j \in 1..Len(results) : results[i] <= results[j]
        /\ \A j \in 1..(i - 1) : results[j] > results[i]

\* the loop of _gridsearch from grid point k on: the prior precision is
\* assigned, the point is validated and its result recorded (every step is
\* bound to its value once)
RECURSIVE GridLoop(_, _, _, _, _)
GridLoop(l, m, os, k, results) ==
    IF k > Len(os) THEN [exc |-> "none", la |-> l, model |-> m, results |-> results]
    ELSE CHOOSE g \in
             {IF v.exc \notin {"none", "RuntimeError"}
              THEN [exc |-> v.exc, la |-> v.la, model |-> v.model, results |-> results]
              ELSE GridLoop(v.la, v.model, os, k + 1, Append(results, Score(v))) :
                 v \in {Validate(a.la, m, os[k]) :
                           a \in {AssignPriorPrecision(l, T0(Interval(Len(os))[k]))}}} :
             TRUE

\* BaseLaplace._gridsearch: np.argmin of an empty list of results raises
GridSearch(l, m, os) ==
    CHOOSE r \in {IF g.exc = "none" /\ g.results = << >>
                  THEN [g EXCEPT !.exc = "ValueError"]
                  ELSE g : g \in {GridLoop(l, m, os, 1, << >>)}} : TRUE

\* optimize_prior_precision(method='gridsearch', val_loader=...): the
\* prior precision returned by _gridsearch is assigned
OptimizePriorPrecision(l, m, val_loader, os) ==
    IF val_loader = "None"
    THEN [exc |-> "ValueError", la |-> l, model |-> m, results |-> << >>]
    ELSE CHOOSE r \in
             {IF g.exc # "none" THEN g
              ELSE [g EXCEPT !.la = AssignPriorPrecision(
                       g.la, T0(Interval(Len(os))[ArgMin(g.results)])).la] :
                 g \in {GridSearch(l, m, os)}} : TRUE

\* a grid search over grid_size points, the validation of the last of which
\* may raise an exception other than RuntimeError; `events` holds the
\* recorded results
GridSearchCall ==
    \E grid_size \in 0..MaxGrid, val_loader \in {"None", "loader"} :
      \E os \in [1..grid_size -> GridOutcomes] :
        /\ val_loader = "None" => grid_size = 1
        /\ \A k \in 1..(grid_size - 1) : os[k].kind # "ValueError"
        /\ \E r \in {OptimizePriorPrecision(la, model, val_loader, os)} :
              /\ la' = r.la
              /\ model' = r.model
              /\ last' = Call("optimize_prior_precision",
                              [val_loader |-> val_loader, outcomes |-> os],
                              r.exc, r.results, {})
        /\ UNCHANGED <<sd, cfg>>

----------------------------------------------------------------------------
(* functional_variance and functional_covariance called with Jacobians. *)

\* the Jacobians handed in: a tensor or not, its device, its last dimension
Jacobians(tensor, device, p) == [tensor |-> tensor, device |-> device, p |-> p]

JacobianArgs(l) ==
    {Jacobians(TRUE, "same", l.n_params), Jacobians(FALSE, "same", l.n_params),
     Jacobians(TRUE, "other", l.n_params), Jacobians(TRUE, "same", l.n_params + 1)}

\* BaseLaplace._check_jacobians
CheckJacobians(l, Js) ==
    IF ~Js.tensor THEN "ValueError"
    ELSE IF Js.device # "same" THEN "ValueError"
    ELSE IF Js.p # l.n_params THEN "ValueError"
    ELSE "none"

\* torch.einsum, or a division, of the Jacobians with a tensor of the object
\* over n_params: a non-tensor is a TypeError, another device or a last
\* dimension that does not match is a RuntimeError
EinsumExc(l, Js) ==
    IF ~Js.tensor THEN "TypeError"
    ELSE IF Js.device # "same" \/ Js.p # l.n_params THEN "RuntimeError"
    ELSE "none"

\* KronDecomposed.inv_square_form of laplace.utils on the Jacobians
InvSquareFormExc(l, Js) == EinsumExc(l, Js)

\* n_batch, n_outs, n_params = Js.shape
ShapeExc(Js) == IF ~Js.tensor THEN "AttributeError" ELSE "none"

\* the first exception of a sequence of steps, "none" when every step passes
FirstExc(excs) ==
    IF \A k \in DOMAIN excs : excs[k] = "none" THEN "none"
    ELSE excs[CHOOSE k \in DOMAIN excs :
                 excs[k] # "none" /\ \A j \in 1..(k - 1) : excs[j] = "none"]

\* FullLaplace.functional_variance / functional_covariance: the posterior
\* covariance is read, and the scale cached, before the einsum
FullFunctional(l, fn, Js) ==
    LET shape == IF fn = "functional_covariance" THEN ShapeExc(Js) ELSE "none"
    IN IF shape # "none" THEN [exc |-> shape, la |-> l]
       ELSE IF CheckHInit(l.H) # "none" THEN [exc |-> CheckHInit(l.H), la |-> l]
       ELSE [exc |-> EinsumExc(l, Js), la |-> WithPosteriorScale(l)]

\* KronLaplace.functional_variance / functional_covariance
KronFunctional(l, fn, Js) ==
    [exc |-> FirstExc(<<IF fn = "functional_covariance"
                        THEN CheckJacobians(l, Js) ELSE "none",
                        KronPosteriorPrecisionExc(l.H),
                        InvSquareFormExc(l, Js)>>),
     la |-> l]

\* LowRankLaplace.functional_variance / functional_covariance: the Jacobians
\* are divided by the prior precision before V and Kinv are read
LowRankFunctional(l, fn, Js) ==
    [exc |-> FirstExc(<<IF fn = "functional_covariance" THEN ShapeExc(Js) ELSE "none",
                        EinsumExc(l, Js),
                        CheckHInit(l.H)>>),
     la |-> l]

\* DiagLaplace.functional_variance / functional_covariance
DiagFunctional(l, fn, Js) ==
    [exc |-> FirstExc(<<CheckJacobians(l, Js), CheckHInit(l.H)>>), la |-> l]

FunctionalCall(l, fn, Js) ==
    CASE l.cls = "FullLaplace" -> FullFunctional(l, fn, Js)
      [] l.cls = "KronLaplace" -> KronFunctional(l, fn, Js)
      [] l.cls = "LowRankLaplace" -> LowRankFunctional(l, fn, Js)
      [] l.cls = "DiagLaplace" -> DiagFunctional(l, fn, Js)

FunctionalVariance ==
    \E Js \in JacobianArgs(la) :
        \E r \in {FunctionalCall(la, "functional_variance", Js)} :
           /\ la' = r.la
           /\ last' = Call("functional_variance", [Js |-> Js], r.exc, << >>, {})
           /\ UNCHANGED <<model, sd, cfg>>

FunctionalCovariance ==
    \E Js \in JacobianArgs(la) :
        \E r \in {FunctionalCall(la, "functional_covariance", Js)} :
           /\ la' = r.la
           /\ last' = Call("functional_covariance", [Js |-> Js], r.exc, << >>, {})
           /\ UNCHANGED <<model, sd, cfg>>

----------------------------------------------------------------------------
(* The GLM predictive of DiagLaplace for regression: marginal and joint. *)

RECURSIVE RatSum(_)
RatSum(s) == IF s = << >> THEN Rat(0, 1) ELSE RatAdd(Head(s), RatSum(Tail(s)))

RECURSIVE Concat(_)
Concat(ss) == IF ss = << >> THEN << >> ELSE Head(ss) \o Concat(Tail(ss))

\* BaseLaplace.prior_precision_diag: a scalar is repeated n_params times, a
\* vector of n_params entries is taken as it is, a per-layer vector repeats
\* every entry over the elements of its layer
PriorPrecisionDiag(l, m) ==
    LET pp == l.prior_precision.v
        ls == TrainableLayers(m)
    IN IF Len(pp) = 1 THEN [i \in 1..l.n_params |-> pp[1]]
       ELSE IF Len(pp) = l.n_params THEN pp
       ELSE Concat([i \in DOMAIN ls |-> [j \in 1..LayerNumel[ls[i]] |-> pp[i]]])

\* DiagLaplace.posterior_variance: 1 / (_H_factor * H + prior_precision_diag)
\* with _H_factor = 1 / sigma_noise^2 / temperature
DiagPosteriorVariance(l, m) ==
    LET f == l.sigma_noise.v[1] * l.sigma_noise.v[1] * l.temperature
    IN [i \in 1..l.n_params |-> Rat(f, l.H.v + PriorPrecisionDiag(l, m)[i] * f)]

\* what the backend returns for a batch X of m examples and a model of k
\* outputs: the Jacobians (m, k, n_params) and the outputs f_mu (m, k)
JacobianRows == {<<1, 0, 0>>, <<0, 1, 1>>}
BatchSizes == {1, 2}
OutputDims == {1, ModelOutputs}

BackendJacobians ==
    UNION {{[Js |-> Js, f_mu |-> [n \in 1..m |-> [c \in 1..k |-> 10 * n + c]]] :
               Js \in [1..m -> [1..k -> JacobianRows]]} :
           m \in BatchSizes, k \in OutputDims}

\* torch.einsum('ncp,p,nkp->nck', Js, posterior_variance, Js)
DiagFunctionalVariance(Js, pvar) ==
    [n \in DOMAIN Js |-> [c \in DOMAIN Js[n] |-> [k \in DOMAIN Js[n] |->
        RatSum([i \in DOMAIN pvar |-> RatMul(Rat(Js[n][c][i] * Js[n][k][i], 1), pvar[i])])]]]

\* a reshape that runs over the batch first
ReshapeBatchFirst(Js) ==
    LET m == Len(Js)
        k == Len(Js[1])
    IN [r \in 1..(m * k) |-> Js[((r - 1) % m) + 1][((r - 1) \div m) + 1]]

\* Js.reshape(n_batch * n_outs, n_params): row (n, c) becomes row (n-1)*k + c
Reshape(Js) ==
    LET m == Len(Js)
        k == Len(Js[1])
    IN [r \in 1..(m * k) |-> Js[((r - 1) \div k) + 1][((r - 1) % k) + 1]]

\* torch.einsum('np,p,mp->nm', Js, posterior_variance, Js) of the reshaped
\* Jacobians
DiagFunctionalCovariance(Js, pvar) ==
    LET R == Reshape(Js)
    IN [a \in DOMAIN R |-> [b \in DOMAIN R |->
        RatSum([i \in DOMAIN pvar |-> RatMul(Rat(R[a][i] * R[b][i], 1), pvar[i])])]]

\* Tensor.flatten of a (m, k) and of a (m, k, k) tensor, Tensor.diag of a
\* matrix
Flatten(t) == Concat(t)
Flatten3(t) == Concat([n \in DOMAIN t |-> Concat(t[n])])
Diagonal(t) == [a \in DOMAIN t |-> t[a][a]]

\* ParametricLaplace._glm_predictive_distribution(X, joint) of DiagLaplace:
\* the value returned
GLMPredictiveDistribution(l, m, x, joint) ==
    IF joint
    THEN [f_mu |-> Flatten(x.f_mu),
          f_var |-> DiagFunctionalCovariance(x.Js, DiagPosteriorVariance(l, m))]
    ELSE [f_mu |-> x.f_mu,
          f_var |-> DiagFunctionalVariance(x.Js, DiagPosteriorVariance(l, m))]

\* a call that returned: its record in `last` with the value returned
Returning(c, value) ==
    [op |-> c.op, args |-> c.args, exc |-> c.exc, events |-> c.events,
     warned |-> c.warned, ret |-> value]

\* la(X, pred_type='glm', joint=joint) on a regression DiagLaplace
PredictRegression ==
    \E x \in BackendJacobians, joint \in BOOLEAN :
        \E r \in {PredictCall(la, model, ProbitArgs, <<1>>, 0)} :
           /\ la.cls = "DiagLaplace" /\ la.likelihood = "regression"
           /\ r.exc = "none"
           /\ la' = r.la
           /\ model' = r.model
           /\ last' = Returning(
                  Call("__call__", [x |-> x, joint |-> joint], "none", << >>, {}),
                  GLMPredictiveDistribution(
                      r.la, r.model, x, joint /\ r.la.likelihood = "regression"))
           /\ UNCHANGED <<sd, cfg>>

----------------------------------------------------------------------------
(* KronLaplace: the quantities that fall back to the prior. *)

\* KronLaplace.log_det_posterior_precision: what the determinant is taken of.
\* While H is the non-decomposed Kron it is the diagonal of the prior alone
KronLogDetPosteriorPrecision(l, m) ==
    IF l.H.kind = "Kron"
    THEN [prior |-> PriorPrecisionDiag(l, m), H |-> None]
    ELSE [prior |-> PriorPrecisionDiag(l, m), H |-> Some(l.H)]

\* KronLaplace.square_norm(value): the difference to the mean (a mean of one
\* element is broadcast) and the precision it is weighted with
KronSquareNorm(l, m, value) ==
    LET delta == [i \in DOMAIN value |->
                     value[i] - (IF Len(l.mean.v) = 1 THEN l.mean.v[1] ELSE l.mean.v[i])]
    IN IF l.H.kind = "Kron"
       THEN [delta |-> delta, prior |-> PriorPrecisionDiag(l, m), H |-> None]
       ELSE [delta |-> delta, prior |-> PriorPrecisionDiag(l, m), H |-> Some(l.H)]

----------------------------------------------------------------------------
(* Prediction with a random generator. *)

\* the states a random source is in: a seeded generator handed to the call,
\* and the global source of torch
Seeds == {"seed0", "seed1"}

\* the draws a source in this state gives, one after the other
Stream(src) ==
    [k \in 1..MaxSamples |-> IF src = "seed0" THEN 1 + (k % 2) ELSE 2 - (k % 2)]

\* the source the draws of __call__ are taken from: predictive_samples,
\* _nn_predictive_samples and _nn_predictive_classification are called
\* without the generator, so that sample() and normal_samples() draw from the
\* global source
CallDrawSource(generator, global) == global

\* the prediction as a function of the draws: for 'nn' the parameter vectors
\* the model is evaluated at, for 'glm' with 'mc' the draws of the logits
\* (regression draws nothing)
PredictionValue(l, a, ds) ==
    IF a.pred_type = "nn"
    THEN [k \in DOMAIN ds |-> SampleVector(l, SampleCall(l).len, ds[k])]
    ELSE IF l.likelihood = "regression" THEN << >>
    ELSE ds

SeededArgs ==
    [pred_type : {"glm", "nn"}, link_approx : {"mc"}, generator : Seeds]

\* la(X, pred_type, link_approx='mc', n_samples=n, generator=g) with the
\* global source in some state
PredictSeeded ==
    \E a \in SeededArgs, global \in Seeds, n \in 1..MaxSamples :
      \E ds \in {[k \in 1..n |-> Stream(CallDrawSource(a.generator, global))[k]]} :
        \E r \in {PredictCall(la, model, a, ds, 0)} :
           /\ la' = r.la
           /\ model' = r.model
           /\ last' = Returning(
                  Call("__call__",
                       [pred_type |-> a.pred_type, link_approx |-> a.link_approx,
                        generator |-> a.generator, n_samples |-> n,
                        global |-> global],
                       r.exc, r.events, {}),
                  IF r.exc = "none" THEN PredictionValue(r.la, a, ds) ELSE << >>)
           /\ UNCHANGED <<sd, cfg>>

\* the calls made on the approximation and, with them, a forward pass of the
\* model that raises during a prediction
Next ==
    \/ Construct
    \/ Fit
    \/ PredictGLM
    \/ PredictNN
    \/ PredictNNForwardRaises

Spec == Init /\ [][Next]_vars

\* export and import of the state, with GLM predictions in between
NextSerial ==
    \/ Construct
    \/ Fit
    \/ PredictProbit
    \/ StateDict
    \/ Load

SpecSerial == Init /\ [][NextSerial]_vars

\* export and import between objects of different temperature and
\* enable_backprop, without predictions
NextWarned ==
    \/ Construct
    \/ Fit
    \/ StateDict
    \/ LoadOtherTemperature

SpecWarned == Init /\ [][NextWarned]_vars

\* assignments to the hyperparameters between fits, GLM predictions and
\* evaluations of the log marginal likelihood
NextSetters ==
    \/ Construct
    \/ Fit
    \/ PredictProbit
    \/ SetPriorPrecision
    \/ SetSigmaNoise
    \/ LogMarginalLikelihood

SpecSetters == Init /\ [][NextSetters]_vars

\* grid searches of the prior precision between fits
NextGrid ==
    \/ Construct
    \/ Fit
    \/ GridSearchCall

SpecGrid == Init /\ [][NextGrid]_vars

\* the model as handed over by an owner who froze at most one of its layers
\* (requires_grad = False) before wrapping it
OwnerModels ==
    {[InitModel EXCEPT !.requires_grad = rg] :
        rg \in {<<TRUE, TRUE>>, <<FALSE, TRUE>>, <<TRUE, FALSE>>}}

InitFrozen ==
    /\ model \in OwnerModels
    /\ cfg \in Configs
    /\ Constructor(cfg, model).exc = "none"
    /\ la = Constructor(cfg, model).la
    /\ last = Call("__init__", << >>, "none", << >>, {})
    /\ sd = None

\* fits and sampling predictions of a model with frozen parameters
NextFrozen ==
    \/ Construct
    \/ Fit
    \/ PredictNN

SpecFrozen == InitFrozen /\ [][NextFrozen]_vars

\* the functional variance and covariance of Jacobians handed in by the
\* caller, between fits and assignments of the prior precision
NextFunctional ==
    \/ Construct
    \/ Fit
    \/ SetPriorPrecision
    \/ FunctionalVariance
    \/ FunctionalCovariance

SpecFunctional == Init /\ [][NextFunctional]_vars

\* marginal and joint GLM predictions of a regression DiagLaplace between
\* fits and assignments of the prior precision
InitRegression ==
    /\ Init
    /\ cfg.cls = "DiagLaplace"
    /\ cfg.likelihood = "regression"

NextRegression ==
    \/ Fit
    \/ SetPriorPrecision
    \/ PredictRegression

SpecRegression == InitRegression /\ [][NextRegression]_vars

\* sampling predictions with a seeded generator between fits
NextGenerator ==
    \/ Construct
    \/ Fit
    \/ PredictSeeded

SpecGenerator == Init /\ [][NextGenerator]_vars

\* fits, step by step, of the approximations of every configuration
NextFit ==
    \/ Construct
    \/ FitSteps

SpecFit == Init /\ [][NextFit]_vars

\* assignments of every kind of value to the prior precision, between fits
NextPrecision ==
    \/ Construct
    \/ Fit
    \/ SetAnyPriorPrecision

SpecPrecision == Init /\ [][NextPrecision]_vars

\* a KronLaplace for classification, with and without damping, that is
\* fitted, exported, loaded and given prior precisions
InitKron ==
    /\ Init
    /\ cfg.cls = "KronLaplace"
    /\ cfg.likelihood = "classification"
    /\ cfg.prior_mean = Py(0)

NextKron ==
    \/ Construct
    \/ Fit
    \/ SetVectorPriorPrecision
    \/ StateDict
    \/ Load

SpecKron == InitKron /\ [][NextKron]_vars

\* a FullLaplace: fits, loads and assignments of the temperature, and the
\* predictions that cache the scale (the assignments to prior_precision and
\* sigma_noise are explored by SpecSetters)
InitFull ==
    /\ Init
    /\ cfg.cls = "FullLaplace"

NextFull ==
    \/ Construct
    \/ Fit
    \/ PredictProbit
    \/ SetTemperature
    \/ StateDict
    \/ Load

SpecFull == InitFull /\ [][NextFull]_vars

----------------------------------------------------------------------------
(* Prediction with pred_type='nn': what the model holds afterwards. *)

\* the last call was a prediction with pred_type='nn' that passed the checks
\* of its arguments
NNCalled == last.op = "__call__" /\ last.args = NNArgs

\* the model's trainable parameters are the approximation's mean
ModelAtMean ==
    /\ la.mean.nd = "1d"
    /\ ParametersToVector(model.theta, TrainableLayers(model)) = la.mean.v

\* the trace of a call over n >= 1 samples: install 1, forward 1, ...,
\* install n, forward n, each forward pass run on its sample, then one restore
InstallForwardRestore(events) ==
    LET n == (Len(events) - 1) \div 2
    IN /\ n >= 1
       /\ Len(events) = 2 * n + 1
       /\ \A k \in 1..n : /\ events[2 * k - 1] = Event("install", k, TRUE)
                          /\ events[2 * k] = Event("forward", k, TRUE)
       /\ events[2 * n + 1] = Event("restore", 0, TRUE)

\* C1: when a prediction with pred_type='nn' returns normally, the model's
\* trainable parameters equal mean; during the call every sample was
\* installed before its forward pass, and the mean was written back exactly
\* once, after the forward pass of the last sample.
NNReturnsAtMean ==
    (NNCalled /\ last.exc = "none") =>
        (ModelAtMean /\ InstallForwardRestore(last.events))

\* a prediction over MaxSamples samples has returned
NNReturnedAfterMaxSamples ==
    /\ NNCalled
    /\ last.exc = "none"
    /\ Len(last.events) = 2 * MaxSamples + 1

\* the forward pass of some sample of the last call raised
NNForwardRaised ==
    /\ NNCalled
    /\ last.exc = "RuntimeError"
    /\ last.events # << >>
    /\ last.events[Len(last.events)].ev = "forward"

\* C2: when the forward pass of a sample raises during a prediction with
\* pred_type='nn', the model's trainable parameters are the mean again when
\* the exception reaches the caller.
NNRaisesAtMean == NNForwardRaised => ModelAtMean

----------------------------------------------------------------------------
(* fit: what it leaves in n_data, loss and the curvature accumulator. *)

\* the last call was a fit that returned
FitReturned == last.op = "fit" /\ last.exc = "none"

\* the sum of the batch losses of one pass over the loader
LoaderLoss(loader) == SumSeq([i \in DOMAIN loader |-> LossBatch(loader[i])])

\* the sum of the batch contributions of one pass over a loader of N
\* examples: a tensor for Full and Diag, one factor for the bias and two for
\* the weight matrix for Kron, the eigenpairs of the loader for LowRank
LoaderCurvature(cls, N) ==
    CASE cls \in {"FullLaplace", "DiagLaplace"} -> [kind |-> "Tensor", v |-> N]
      [] cls = "KronLaplace" ->
            [kind |-> "Kron",
             kfacs |-> << << <<N, 1>> >>, << <<N, 1>>, <<N, 1>> >> >>]
      [] cls = "LowRankLaplace" -> [kind |-> "Eig", v |-> N]

\* the accumulator: H_facs for Kron, H for the other structures
Accumulator(l) == IF l.cls = "KronLaplace" THEN l.H_facs[1] ELSE l.H

\* C3: after fit(loader, override=True) has completed, whatever the state
\* before it (unfitted, fitted, fitted online, loaded), n_data is
\* len(loader.dataset), loss is the sum of this fit's batch losses and the
\* accumulator is the sum of this fit's batch contributions.
OverrideFitKeepsOnlyThisFit ==
    (FitReturned /\ last.args.override) =>
        /\ la.n_data = DatasetLen(last.args.loader)
        /\ la.loss = LoaderLoss(last.args.loader)
        /\ Accumulator(la) = LoaderCurvature(la.cls, DatasetLen(last.args.loader))

\* an override fit has completed on an approximation that had exported a
\* state of more examples than this fit's loader holds
OverrideFitAfterLargerFit ==
    /\ FitReturned
    /\ last.args.override
    /\ ~IsNone(sd)
    /\ sd[1].src.n_data > la.n_data

\* the step is a call of fit (of constructor) that returns
FitStep(override) ==
    last'.op = "fit" /\ last'.exc = "none" /\ last'.args.override = override
ConstructStep == last'.op = "__init__" /\ last'.exc = "none"

\* C4: fit(loader, override=False) on a Full or Diag approximation holding
\* (H0, loss0, n0) ends with H = H0 + this fit's batch contributions,
\* loss = loss0 + this fit's batch losses and n_data = n0 + N; as an override
\* fit ends with n_data = N and construction with n_data = 0, n_data is the
\* sum of the dataset sizes of the fits since the last override fit, or
\* since construction.
OnlineFitAccumulates ==
    [][la.cls \in {"FullLaplace", "DiagLaplace"} =>
          /\ FitStep(FALSE) =>
                /\ la'.H = [kind |-> "Tensor",
                            v |-> la.H.v + DatasetLen(last'.args.loader)]
                /\ la'.loss = la.loss + LoaderLoss(last'.args.loader)
                /\ la'.n_data = la.n_data + DatasetLen(last'.args.loader)
          /\ FitStep(TRUE) => la'.n_data = DatasetLen(last'.args.loader)
          /\ ConstructStep => la'.n_data = 0]_vars

\* an online fit has completed on a Full or Diag approximation that already
\* held examples
OnlineFitOnFitted ==
    /\ FitReturned
    /\ ~last.args.override
    /\ la.cls \in {"FullLaplace", "DiagLaplace"}
    /\ la.n_data > DatasetLen(last.args.loader)

\* the step is a fit with override=False on a LowRankLaplace
LowRankOnlineFitStep ==
    la.cls = "LowRankLaplace" /\ last'.op = "fit" /\ ~last'.args.override

\* C10: LowRankLaplace.fit with override=False raises ValueError and changes
\* nothing: every field of the approximation (H, mean, loss, n_data,
\* n_outputs among them) and the model (its mode, its attributes, its
\* parameters) are what they were before the call.
LowRankOnlineFitRefused ==
    [][LowRankOnlineFitStep =>
          (last'.exc = "ValueError" /\ la' = la /\ model' = model)]_vars

\* a fitted LowRankLaplace has refused an online fit
FittedLowRankRefused ==
    /\ la.cls = "LowRankLaplace"
    /\ last.op = "fit"
    /\ ~last.args.override
    /\ last.exc = "ValueError"
    /\ la.n_data > 0
    /\ la.H.kind = "Eig"

----------------------------------------------------------------------------
(* state_dict and load_state_dict. *)

\* the mapping handed to the load_state_dict call that a step makes, and to
\* the one made last
LoadingStep == last'.op = "load_state_dict"
StepMapping == Tamper(sd[1].map, last'.args.tamper)
LastMapping == Tamper(sd[1].map, last.args.tamper)

\* the mapping holds what state_dict put into it: no fit has since worked in
\* place on a tensor it shares with an approximation
MappingAsExported ==
    /\ sd[1].map.loss = sd[1].src.loss
    /\ sd[1].map.H = IF sd[1].map.cls_name = "KronLaplace"
                     THEN [kind |-> "kfacs", kfacs |-> sd[1].src.H_facs[1].kfacs]
                     ELSE sd[1].src.H

\* the last call loaded the mapping, as exported by a fitted approximation,
\* into a newly constructed approximation of the same class, model and
\* likelihood
LoadedIntoFresh ==
    /\ last.op = "load_state_dict"
    /\ last.args.tamper = "none"
    /\ last.args.fresh
    /\ sd[1].src.n_data > 0
    /\ MappingAsExported
    /\ Constructor(cfg, model).la.likelihood = sd[1].map.likelihood

LoadRefusesClassAndLength ==
    [][LoadingStep =>
          /\ StepMapping.cls_name # la.cls => last'.exc = "ValueError"
          /\ (StepMapping.mean.nd = "1d" /\ Len(StepMapping.mean.v) # la.n_params)
                => last'.exc = "ValueError"]_vars

\* a mapping of the receiver's class and likelihood whose mean is one
\* element short was refused
ShortMeanRefused ==
    /\ last.op = "load_state_dict"
    /\ last.exc = "ValueError"
    /\ LastMapping.cls_name = la.cls
    /\ LastMapping.likelihood = la.likelihood
    /\ LastMapping.mean.nd = "1d"
    /\ Len(LastMapping.mean.v) = la.n_params - 1

\* C7: load_state_dict raises ValueError whenever the mapping's likelihood is
\* not the receiver's likelihood field of that moment.
LoadRefusesLikelihood ==
    [][(LoadingStep /\ StepMapping.likelihood # la.likelihood)
          => last'.exc = "ValueError"]_vars

\* the mapping of the step holds, under every key but temperature and
\* enable_backprop, what the receiver itself would export
DiffersOnlyInWarned ==
    /\ \A k \in DOMAIN StepMapping \ {"temperature", "enable_backprop"} :
          StepMapping[k] = StateDictCall(la).map[k]
    /\ \/ StepMapping.temperature # la.temperature
       \/ StepMapping.enable_backprop # la.enable_backprop

\* C8: when the mapping differs from the receiver in temperature and/or
\* enable_backprop only, load_state_dict warns, raises nothing, and ends with
\* every field of the receiver, temperature and enable_backprop included,
\* holding the mapping's value.
LoadWarnsAndCompletes ==
    [][(LoadingStep /\ DiffersOnlyInWarned)
       => /\ last'.exc = "none"
          /\ last'.warned # {}
          /\ la'.mean = StepMapping.mean
          /\ IF la.cls = "KronLaplace"
             THEN la'.H_facs[1].kfacs = StepMapping.H.kfacs
             ELSE la'.H = StepMapping.H
          /\ la'.loss = StepMapping.loss
          /\ la'.prior_mean.v = StepMapping.prior_mean.v
          /\ la'.prior_precision = StepMapping.prior_precision
          /\ la'.sigma_noise = StepMapping.sigma_noise
          /\ la'.n_data = StepMapping.n_data
          /\ la'.n_outputs = StepMapping.n_outputs
          /\ la'.likelihood = StepMapping.likelihood
          /\ la'.temperature = StepMapping.temperature
          /\ la'.enable_backprop = StepMapping.enable_backprop]_vars

\* C9 (state_dict part): on an approximation that is as its constructor left
\* it, neither fitted nor loaded, state_dict raises instead of returning a
\* mapping, for every structure.
UnfittedStateDictRaises ==
    (last.op = "state_dict" /\ Fresh(la, model)) => last.exc # "none"

----------------------------------------------------------------------------
(* FullLaplace: the cached posterior scale. *)

\* C11: for FullLaplace the cached posterior scale is empty after every
\* assignment to prior_precision or sigma_noise (a refused one included) and
\* after every call of fit, and a scale that is cached is the one computed
\* from the H, prior precision, sigma_noise and temperature the object holds
FullScaleDroppedOnChange ==
    la.cls = "FullLaplace" =>
        /\ last.op \in {"prior_precision", "sigma_noise", "fit"} =>
               IsNone(la.posterior_scale)
        /\ ~IsNone(la.posterior_scale) => la.posterior_scale = ComputeScale(la)

\* a fitted FullLaplace whose per-layer prior precision was assigned holds,
\* after a prediction, the scale computed from the assigned value
FullScaleRecomputedAfterAssignment ==
    /\ la.cls = "FullLaplace"
    /\ la.n_data > 0
    /\ last.op = "__call__" /\ last.exc = "none"
    /\ la.prior_precision = T1(<<1, 2>>)
    /\ la.sigma_noise = T0(2)
    /\ la.posterior_scale = ComputeScale(la)

----------------------------------------------------------------------------
(* sigma_noise and the likelihood. *)

\* C12: in every reachable state, an approximation whose likelihood is not
\* 'regression' has sigma_noise equal to 1
SigmaNoiseOneUnlessRegression ==
    la.likelihood # "regression" => la.sigma_noise.v = <<1>>

----------------------------------------------------------------------------
(* Prediction: the validation of the arguments. *)

\* the arguments that __call__ refuses: a pred_type other than 'glm' and 'nn',
\* a link_approx outside the four known ones, 'nn' with a link_approx other
\* than 'mc'
RefusedArgs(a) ==
    \/ a.pred_type \notin {"glm", "nn"}
    \/ a.link_approx \notin {"mc", "probit", "bridge", "bridge_norm"}
    \/ a.pred_type = "nn" /\ a.link_approx # "mc"

\* C13: a prediction call with such arguments raises ValueError, for every
\* likelihood, and leaves the approximation (its likelihood, backend, cached
\* scale) and the model (parameters, output_size) as they were: no forward
\* pass, no parameter written, no relabel
RefusedCallChangesNothing ==
    [][(last'.op = "__call__" /\ RefusedArgs(last'.args)) =>
           /\ last'.exc = "ValueError"
           /\ last'.events = << >>
           /\ la' = la
           /\ model' = model]_vars

\* a fitted reward-modeling approximation that has not been relabelled was
\* asked for pred_type='nn' with link_approx='probit' and refused
RewardModelingCallRefused ==
    /\ last.op = "__call__"
    /\ last.args.pred_type = "nn" /\ last.args.link_approx = "probit"
    /\ last.exc = "ValueError"
    /\ la.reward_modeling /\ la.likelihood = "classification"
    /\ la.n_data > 0
    /\ model.output_size = Some(ModelOutputs)

----------------------------------------------------------------------------
(* Reward modeling: the relabel of the likelihood. *)

\* the step is a prediction call whose arguments pass the validation
AcceptedCallStep ==
    /\ last'.op = "__call__"
    /\ ~RefusedArgs(last'.args)
    /\ last'.args.generator # "invalid"

\* C14: the likelihood field of a reward-modeling approximation is
\* 'classification' until the first prediction call made after a fit: it
\* leaves 'classification' only in a prediction call on a fitted object,
\* that call sets it to 'regression' and model.output_size to 1, and once
\* 'regression' it stays so through every later prediction and fit
RelabelAtFirstCallAfterFit ==
    [][(la.reward_modeling /\ ~ConstructStep) =>
          /\ (la.likelihood = "classification" /\ la'.likelihood # "classification")
                => (last'.op = "__call__" /\ la.n_data > 0)
          /\ (la.likelihood = "classification" /\ la.n_data > 0 /\ AcceptedCallStep)
                => (la'.likelihood = "regression" /\ model'.output_size = Some(1))
          /\ la.likelihood = "regression" => la'.likelihood = "regression"]_vars

\* C15: every fit of a reward-modeling approximation takes its curvature
\* from a backend constructed with the 'classification' likelihood, whatever
\* calls came before it
RewardModelingFitsWithClassification ==
    (la.reward_modeling /\ FitReturned) => la.backend = Some("classification")

----------------------------------------------------------------------------
(* Grid search of the prior precision. *)

\* the last call was a grid search that returned; its outcomes and results
GridSearchReturned == last.op = "optimize_prior_precision" /\ last.exc = "none"
GridResults == last.events
GridPoints == 1..Len(last.events)

\* the grid points whose value the prior precision holds
SelectedPoints ==
    {i \in GridPoints : la.prior_precision = T1(<<Interval(Len(GridResults))[i]>>)}

\* C16: a grid search that returns leaves prior_precision at a grid value
\* whose recorded loss is less than or equal to that of every grid point
\* evaluated
GridSearchSelectsMinimum ==
    GridSearchReturned =>
        \E i \in SelectedPoints : \A j \in GridPoints : GridResults[i] <= GridResults[j]

\* a grid search of MaxGrid points returned with the first point strictly
\* better than the last one, and holds the first
FirstPointSelectedOverLast ==
    /\ GridSearchReturned
    /\ Len(GridResults) = MaxGrid
    /\ GridResults[1] < GridResults[MaxGrid]
    /\ SelectedPoints = {1}

\* C17: a RuntimeError raised by the validation of a grid point does not
\* reach the caller; when the search returns, every grid point was evaluated
\* in order, the failed ones are recorded with an infinite loss, and no
\* failed point is selected when some point produced a finite loss
GridSearchSurvivesRuntimeError ==
    last.op = "optimize_prior_precision" =>
        /\ last.exc # "RuntimeError"
        /\ (\A k \in DOMAIN last.args.outcomes :
                last.args.outcomes[k].kind # "ValueError")
             => \/ last.exc = "none" /\ Len(GridResults) = Len(last.args.outcomes)
                \/ GridResults = << >>
        /\ last.exc = "none" =>
             /\ \A k \in GridPoints :
                    GridResults[k] = IF last.args.outcomes[k].kind = "RuntimeError"
                                     THEN Inf ELSE last.args.outcomes[k].v
             /\ (\E k \in GridPoints : GridResults[k] < Inf)
                    => \A i \in SelectedPoints : last.args.outcomes[i].kind = "loss"

\* a grid search whose first point raised RuntimeError returned with the
\* second point, of finite loss, selected
FailedPointPassedOver ==
    /\ GridSearchReturned
    /\ Len(GridResults) = 2
    /\ last.args.outcomes[1].kind = "RuntimeError"
    /\ GridResults = <<Inf, 1>>
    /\ SelectedPoints = {2}

----------------------------------------------------------------------------
(* The mean and the trainable parameters. *)

\* C18: after a fit, for every structure and also for a model with frozen
\* parameters, mean is the flattened concatenation of exactly the trainable
\* parameters in model order, so its length is n_params
MeanIsTrainableParameters ==
    FitReturned =>
        /\ la.mean = T1(ParametersToVector(model.theta, TrainableLayers(model)))
        /\ Numel(la.mean) = la.n_params

----------------------------------------------------------------------------
(* The validation of Jacobians. *)

\* the step is a call of functional_variance or functional_covariance
FunctionalStep == last'.op \in {"functional_variance", "functional_covariance"}

\* C19: for each structure, functional_variance and functional_covariance
\* called with Jacobians that are not a tensor, are on another device or
\* whose last dimension is not n_params raise ValueError, and nothing was
\* computed before
InvalidJacobiansRefused ==
    [][(FunctionalStep /\ CheckJacobians(la, last'.args.Js) # "none") =>
           (last'.exc = "ValueError" /\ la' = la)]_vars

----------------------------------------------------------------------------
(* Regression: the joint and the marginal GLM predictive. *)

\* the last call was a GLM prediction of a regression DiagLaplace; what the
\* marginal and the joint prediction of its input return in this state
RegressionPredicted == last.op = "__call__" /\ "ret" \in DOMAIN last
Marginal == GLMPredictiveDistribution(la, model, last.args.x, FALSE)
Joint == GLMPredictiveDistribution(la, model, last.args.x, TRUE)
BatchSize == Len(last.args.x.Js)
OutputDim == Len(last.args.x.Js[1])

\* C20: the flattened marginal mean is the joint mean, and the flattened
\* marginal variance is the diagonal of the joint covariance, for every
\* batch size and output dimension
FlatMarginalIsJointDiagonal ==
    RegressionPredicted =>
        /\ Flatten(Marginal.f_mu) = Joint.f_mu
        /\ Flatten3(Marginal.f_var) = Diagonal(Joint.f_var)

\* C20, amended: the flattened marginal mean is the joint mean; the marginal
\* variance of example n holds, on the diagonal of its (k, k) block, the
\* entries (n-1)*k + c of the diagonal of the joint covariance; the whole
\* flattened marginal variance is that diagonal when the output dimension
\* is 1
MarginalBlockDiagonalIsJointDiagonal ==
    RegressionPredicted =>
        /\ last.ret = IF last.args.joint THEN Joint ELSE Marginal
        /\ Flatten(Marginal.f_mu) = Joint.f_mu
        /\ \A n \in 1..BatchSize : \A c \in 1..OutputDim :
               Marginal.f_var[n][c][c] = Joint.f_var[(n - 1) * OutputDim + c][(n - 1) * OutputDim + c]
        /\ OutputDim = 1 => Flatten3(Marginal.f_var) = Diagonal(Joint.f_var)

\* a joint prediction of two examples and two outputs by a fitted
\* approximation with a per-layer prior precision, the Jacobians of the
\* first example differing between the outputs
JointPredictionOfTwoByTwo ==
    /\ RegressionPredicted
    /\ last.args.joint
    /\ BatchSize = 2 /\ OutputDim = 2
    /\ last.args.x.Js[1][1] # last.args.x.Js[1][2]
    /\ last.args.x.Js[1] # last.args.x.Js[2]
    /\ la.n_data > 0
    /\ la.prior_precision = T1(<<1, 2>>)
    /\ Len(last.ret.f_var) = 4

----------------------------------------------------------------------------
(* KronLaplace: the weights of an online fit. *)

\* the contribution of one parameter group scaled by a factor: the scaling
\* of its last Kronecker factor
ScaleGroup(F, factor) == [F EXCEPT ![Len(F)] = RatMul(F[Len(F)], factor)]

\* the step is a fit(override=False) of a KronLaplace that holds factors
KronOnlineFitStep ==
    /\ la.cls = "KronLaplace"
    /\ FitStep(FALSE)
    /\ ~IsNone(la.H_facs)

----------------------------------------------------------------------------
(* log_marginal_likelihood: what it stores. *)

\* the step is a call of log_marginal_likelihood
MarglikStep == last'.op = "log_marginal_likelihood"

\* C22: log_marginal_likelihood(prior_precision=p, sigma_noise=s) stores p
\* (as a vector) and s (as a scalar tensor) for each argument that is not
\* None, and they stay stored when the call has ended; an argument that is
\* None leaves the stored value as it was; a sigma_noise that is not None
\* raises ValueError on an approximation whose likelihood is not regression
MarglikStoresItsArguments ==
    [][MarglikStep =>
          LET pp == last'.args.prior_precision
              sn == last'.args.sigma_noise
          IN /\ la'.prior_precision =
                    IF IsNone(pp) THEN la.prior_precision ELSE T1(pp[1].v)
             /\ la'.sigma_noise =
                    IF IsNone(sn) \/ la.likelihood # "regression"
                    THEN la.sigma_noise ELSE T0(sn[1].v[1])
             /\ (~IsNone(sn) /\ la.likelihood # "regression")
                    => last'.exc = "ValueError"
             /\ (IsNone(pp) /\ IsNone(sn)) => la' = la]_vars

\* a fitted regression approximation has returned from
\* log_marginal_likelihood(prior_precision=2, sigma_noise=2) and holds both
MarglikStoredBoth ==
    /\ last.op = "log_marginal_likelihood"
    /\ last.exc = "none"
    /\ ~IsNone(last.args.prior_precision) /\ ~IsNone(last.args.sigma_noise)
    /\ la.n_data > 0
    /\ la.prior_precision = T1(<<2>>)
    /\ la.sigma_noise = T0(2)

----------------------------------------------------------------------------
(* Prediction: the random generator. *)

\* the last call was a sampling prediction with a generator, and returned
SeededCallReturned ==
    /\ last.op = "__call__"
    /\ last.exc = "none"
    /\ "global" \in DOMAIN last.args

\* C23: every draw of a prediction call that was given a generator is taken
\* from that generator, for pred_type='glm' with link_approx='mc' and for
\* pred_type='nn': the prediction returned is the one made from the
\* generator's draws, whatever the state of the global source
GeneratorDecidesPrediction ==
    SeededCallReturned =>
        last.ret = PredictionValue(
                       la, last.args,
                       [k \in 1..last.args.n_samples |-> Stream(last.args.generator)[k]])

----------------------------------------------------------------------------
(* Fit: the order of its steps. *)

\* a step that is a completed ParametricLaplace.fit (Full, Kron, Diag)
ParametricFitStep ==
    /\ last'.op = "fit"
    /\ last'.exc = "none"
    /\ la.cls # "LowRankLaplace"

\* C24: during one fit every batch of the loader is passed to the backend
\* exactly once, in loader order, each call right after a zeroing of the
\* gradients and with N = len(loader.dataset); the probe of the first batch
\* adds no curvature and no loss; n_data is increased once, by N, after the
\* last batch was accumulated
FitPassesEveryBatchOnce ==
    [][ParametricFitStep =>
          LET loader == last'.args.loader
              ev == last'.events
              n == Len(loader)
              N == DatasetLen(loader)
              entry == FitEntry(la, model, last'.args.override)
          IN /\ Len(ev) = 2 * n + 2
             /\ ev[1].ev = "probe"
             /\ ev[1].loss = entry.loss /\ ev[1].H = entry.H
             /\ \A k \in 1..n :
                   /\ ev[2 * k].ev = "zero_grad" /\ ev[2 * k].i = k
                   /\ ev[2 * k].loss = ev[2 * k - 1].loss
                   /\ ev[2 * k].H = ev[2 * k - 1].H
                   /\ ev[2 * k + 1].ev = "backend" /\ ev[2 * k + 1].i = k
                   /\ ev[2 * k + 1].N = N
                   /\ ev[2 * k + 1].loss = ev[2 * k].loss + LossBatch(loader[k])
             /\ ev[2 * n + 2].ev = "n_data" /\ ev[2 * n + 2].N = N
             /\ ev[2 * n + 2].loss = ev[2 * n + 1].loss
             /\ la'.n_data = entry.n_data + N]_vars

\* an online fit of one batch that followed a fit of one batch
SecondOnlineFitRecorded ==
    /\ last.op = "fit" /\ last.exc = "none"
    /\ ~last.args.override
    /\ la.cls # "LowRankLaplace"
    /\ Len(last.events) = 4
    /\ la.n_data = 2

----------------------------------------------------------------------------
(* The prior precision setter: refused values. *)

\* C26: an assignment to prior_precision that raises ValueError (wrong type,
\* more than one dimension, a length the structure does not allow) leaves
\* the stored prior precision as it was before the assignment
RefusedPrecisionNotStored ==
    [][(last'.op = "prior_precision" /\ last'.exc = "ValueError")
          => la'.prior_precision = la.prior_precision]_vars

\* the consequence C26 draws: the prior precision a KronLaplace holds has
\* length 1 or n_layers
KronPrecisionScalarOrPerLayer ==
    la.cls = "KronLaplace" => Len(la.prior_precision.v) \in {1, la.n_layers}

\* the refusals that do hold the claim: every ValueError of the base setter
BaseRefusalNotStored ==
    [][(last'.op = "prior_precision" /\ last'.exc = "ValueError"
          /\ ~(la.cls = "KronLaplace" /\ last'.args.value.nd = "1d"
               /\ Len(last'.args.value.v) = la.n_params))
          => la'.prior_precision = la.prior_precision]_vars

----------------------------------------------------------------------------
(* KronLaplace: H and H_facs. *)

\* a KronLaplace before its first fit: H is the non-decomposed Kron of the
\* model and there are no aggregated factors
KronUnfitted ==
    /\ IsNone(la.H_facs)
    /\ la.H = KronInitFromModel(model)

\* a KronLaplace after a fit or a load: H is the decomposition, with the
\* object's damping, of the factors H_facs holds
KronFitted ==
    /\ ~IsNone(la.H_facs)
    /\ la.H_facs[1].kind = "Kron"
    /\ la.H = KronDecompose(la.H_facs[1], la.damping)

\* C25: a KronLaplace holds, before its first fit, a non-decomposed Kron as
\* H and no H_facs, and its log-determinant and square norm are those of the
\* prior precision alone; after every fit and after every load_state_dict
\* H_facs holds the aggregated factors and H is the decomposition of exactly
\* these factors, never of earlier ones
KronHDecomposesHFacs ==
    la.cls = "KronLaplace" =>
        /\ KronUnfitted \/ KronFitted
        /\ last.op \in {"fit", "load_state_dict"} /\ last.exc = "none" => KronFitted
        /\ KronUnfitted =>
              /\ IsNone(KronLogDetPosteriorPrecision(la, model).H)
              /\ IsNone(KronSquareNorm(la, model, ParametersToVector(
                            model.theta, TrainableLayers(model))).H)

----------------------------------------------------------------------------
(* load_state_dict: the fatal mismatches. *)

\* the mapping of the step has another type tag, a mean of another length,
\* or another likelihood than the receiver
FatalMismatch ==
    \/ StepMapping.cls_name # la.cls
    \/ StepMapping.mean.nd = "1d" /\ Len(StepMapping.mean.v) # la.n_params
    \/ StepMapping.likelihood # la.likelihood

\* C27: a load_state_dict that raises for a mismatch of type tag, parameter
\* count or likelihood has changed no field of the receiver (mean, H, loss,
\* prior_mean, prior_precision, sigma_noise, n_data, n_outputs, likelihood,
\* temperature, enable_backprop, H_facs) and no attribute of the model: the
\* three checks come before the first write
FatalLoadChangesNothing ==
    [][(LoadingStep /\ FatalMismatch)
          => /\ last'.exc # "none"
             /\ la' = la
             /\ model' = model]_vars

\* a mapping of a fitted approximation, with another likelihood, was refused
\* by a newly constructed KronLaplace
OtherLikelihoodRefusedByFresh ==
    /\ last.op = "load_state_dict"
    /\ last.exc = "ValueError"
    /\ last.args.tamper = "likelihood"
    /\ last.args.fresh
    /\ la.cls = "KronLaplace"
    /\ sd[1].map.n_data > 0
    /\ sd[1].map.cls_name = la.cls
    /\ la.n_data = 0 /\ IsNone(la.H_facs)

----------------------------------------------------------------------------
(* state_dict: the mapping after a later fit. *)

\* C28: the mapping state_dict returned is a snapshot: a later
\* fit(override=False) of the approximation, which accumulates H and loss in
\* place and for Kron rescales the stored factors in place, changes neither
\* the curvature nor the loss the mapping holds
OnlineFitKeepsMapping ==
    [][(last'.op = "fit" /\ last'.exc = "none" /\ ~last'.args.override
          /\ ~IsNone(sd))
          => /\ sd'[1].map.H = sd[1].map.H
             /\ sd'[1].map.loss = sd[1].map.loss]_vars

----------------------------------------------------------------------------
(* Reward modeling: export after a prediction. *)

\* C29: a mapping exported by a fitted reward-modeling approximation loads
\* without error into a newly constructed approximation of the same class
\* and model with likelihood='reward_modeling', whether or not a prediction
\* call was made before the export
RewardModelingMappingLoads ==
    (/\ last.op = "load_state_dict"
     /\ last.args.tamper = "none"
     /\ last.args.fresh
     /\ cfg.likelihood = "reward_modeling"
     /\ sd[1].src.n_data > 0
     /\ MappingAsExported)
    => last.exc = "none"

\* the same of the mappings exported before any prediction call
UnpredictedRewardModelingMappingLoads ==
    (/\ last.op = "load_state_dict"
     /\ last.args.tamper = "none"
     /\ last.args.fresh
     /\ cfg.likelihood = "reward_modeling"
     /\ sd[1].src.n_data > 0
     /\ MappingAsExported
     /\ sd[1].map.likelihood = "classification")
    => last.exc = "none"

----------------------------------------------------------------------------
(* FullLaplace: the cached scale and every operation that changes its inputs. *)

\* C30: whenever a FullLaplace holds a cached posterior scale, it is the
\* scale computed from the H, prior precision, sigma_noise and temperature
\* the object holds: neither fit, load_state_dict nor an assignment to
\* prior_precision, sigma_noise or temperature leaves a scale computed from
\* earlier values
FullCachedScaleIsCurrent ==
    (la.cls = "FullLaplace" /\ ~IsNone(la.posterior_scale))
        => la.posterior_scale = ComputeScale(la)

\* the same of H, prior precision and sigma_noise alone, which holds after
\* fit and load_state_dict
FullCachedScaleIsCurrentButTemperature ==
    (la.cls = "FullLaplace" /\ ~IsNone(la.posterior_scale))
        => [la.posterior_scale[1] EXCEPT !.temperature = la.temperature]
              = ComputeScale(la)[1]

====
